---- MODULE Spec2Model ----
(***************************************************************************)
(* A model of gix, a tree-walking interpreter for the Nix expression       *)
(* language: the lexer (pkg/lexer), the Pratt parser (pkg/parser) and the  *)
(* evaluator (pkg/eval) with its values and environments (internal/value). *)
(*                                                                         *)
(* Source text is a TLA+ string; a character is a string of length one and *)
(* the lexer's end-of-input byte 0 is the empty string.  Environment       *)
(* frames and attribute sets are Go pointers: they live in a heap and a    *)
(* value refers to them by index, so that aliasing and in-place writes are *)
(* visible.                                                                *)
(***************************************************************************)
EXTENDS Integers, Sequences, FiniteSets, TLC

VARIABLES input, lx, toks, pc, ast, errors, heap, letEnv, letIdx, result,
          opA, opB, opHeap, opRes, base

vars == <<input, lx, toks, pc, ast, errors, heap, letEnv, letIdx, result,
          opA, opB, opHeap, opRes, base>>

(***************************************************************************)
(* Characters                                                              *)
(***************************************************************************)
NUL == ""

LowerLetters == {"a", "b", "c", "d", "e", "f", "g", "h", "i", "j", "k", "l", "m",
                 "n", "o", "p", "q", "r", "s", "t", "u", "v", "w", "x", "y", "z"}

UpperLetters == {"A", "B", "C", "D", "E", "F", "G", "H", "I", "J", "K", "L", "M",
                 "N", "O", "P", "Q", "R", "S", "T", "U", "V", "W", "X", "Y", "Z"}

Digits == {"0", "1", "2", "3", "4", "5", "6", "7", "8", "9"}

isLetter(ch) == ch \in LowerLetters \/ ch \in UpperLetters \/ ch = "_"

isDigit(ch) == ch \in Digits

isPathChar(ch) == isLetter(ch) \/ isDigit(ch) \/ ch = "/" \/ ch = "." \/ ch = "-" \/ ch = "_"

\* unicode.IsLetter on a byte below 0x80: the ASCII letters, without '_'.
unicodeIsLetter(ch) == ch \in LowerLetters \/ ch \in UpperLetters

\* input[i] for a 0-based byte offset i.
CharAt(s, i) == SubSeq(s, i + 1, i + 1)

\* A byte 0 inside a source text is written as the form feed in the strings
\* of this module; the lexer reads it as the same byte it uses for the end
\* of the input.
ZeroByte == "\f"

ByteAt(s, i) == IF CharAt(s, i) = ZeroByte THEN NUL ELSE CharAt(s, i)

\* input[from:to] for 0-based offsets, to exclusive.
Slice(s, from, to) == SubSeq(s, from + 1, to)

(***************************************************************************)
(* Lexer                                                                   *)
(***************************************************************************)
keywords == [if |-> "IF", then |-> "THEN", else |-> "ELSE", let |-> "LET",
             in |-> "IN", with |-> "WITH", assert |-> "ASSERT", or |-> "OR",
             and |-> "AND", not |-> "NOT", rec |-> "REC", inherit |-> "INHERIT"]

LookupIdent(ident) == IF ident \in DOMAIN keywords THEN keywords[ident] ELSE "IDENT"

Token(type, literal, line, column) ==
    [Type |-> type, Literal |-> literal, Line |-> line, Column |-> column]

readChar(l) ==
    LET c == IF l.readPosition >= Len(l.input) THEN NUL
             ELSE ByteAt(l.input, l.readPosition)
    IN  [l EXCEPT !.ch = c,
                  !.position = l.readPosition,
                  !.readPosition = l.readPosition + 1,
                  !.line = IF c = "\n" THEN l.line + 1 ELSE l.line,
                  !.column = IF c = "\n" THEN 0 ELSE l.column + 1]

LexerNew(src) ==
    readChar([input |-> src, position |-> 0, readPosition |-> 0, ch |-> NUL,
              line |-> 1, column |-> 0])

peekChar(l) ==
    IF l.readPosition >= Len(l.input) THEN NUL ELSE ByteAt(l.input, l.readPosition)

RECURSIVE skipWhitespaceNoCR(_)
\* A skipWhitespace that does not know the carriage return.
skipWhitespaceNoCR(l) ==
    IF l.ch = " " \/ l.ch = "\t" \/ l.ch = "\n"
    THEN skipWhitespaceNoCR(readChar(l))
    ELSE l

RECURSIVE skipWhitespace(_)
skipWhitespace(l) ==
    IF l.ch = " " \/ l.ch = "\t" \/ l.ch = "\n" \/ l.ch = "\r"
    THEN skipWhitespace(readChar(l))
    ELSE l

RECURSIVE skipLineComment(_)
skipLineComment(l) ==
    IF l.ch # "\n" /\ l.ch # NUL THEN skipLineComment(readChar(l)) ELSE l

RECURSIVE skipBlockComment(_)
skipBlockComment(l) ==
    IF l.ch = NUL THEN l
    ELSE IF l.ch = "*" /\ peekChar(l) = "/" THEN readChar(readChar(l))
    ELSE skipBlockComment(readChar(l))

skipComment(l) ==
    IF l.ch = "#" THEN skipLineComment(l)
    ELSE IF l.ch = "/" /\ peekChar(l) = "*" THEN skipBlockComment(readChar(readChar(l)))
    ELSE l

\* The loop that opens NextToken: whitespace and comments, in any number.
RECURSIVE skipIgnored(_)
skipIgnored(l) ==
    LET w == skipWhitespace(l)
    IN  IF w.ch = "#" \/ (w.ch = "/" /\ peekChar(w) = "*")
        THEN skipIgnored(skipComment(w))
        ELSE w

RECURSIVE readIdentifierEnd(_)
readIdentifierEnd(l) ==
    IF isLetter(l.ch) \/ isDigit(l.ch) THEN readIdentifierEnd(readChar(l)) ELSE l

\* Returns the lexer after the identifier and its text.
readIdentifier(l) ==
    LET e == readIdentifierEnd(l)
    IN  [l |-> e, lit |-> Slice(l.input, l.position, e.position)]

RECURSIVE readDigits(_)
readDigits(l) == IF isDigit(l.ch) THEN readDigits(readChar(l)) ELSE l

readNumber(l) ==
    LET a == readDigits(l)
        isFloat == a.ch = "." /\ isDigit(peekChar(a))
        e == IF isFloat THEN readDigits(readChar(a)) ELSE a
    IN  [l |-> e, lit |-> Slice(l.input, l.position, e.position),
         type |-> IF isFloat THEN "FLOAT" ELSE "INT"]

RECURSIVE readStringEnd(_)
readStringEnd(l) ==
    LET a == readChar(l)
    IN  IF a.ch = "\"" \/ a.ch = NUL THEN a
        ELSE IF a.ch = "\\" THEN readStringEnd(readChar(a))
        ELSE readStringEnd(a)

\* input[position:l.position]; a slice bound beyond len(input) panics in Go.
readString(l) ==
    LET e == readStringEnd(l)
    IN  [l |-> e, panics |-> e.position > Len(l.input),
         lit |-> IF e.position > Len(l.input) THEN ""
                 ELSE Slice(l.input, l.position + 1, e.position)]

RECURSIVE readPathEnd(_)
readPathEnd(l) == IF isPathChar(l.ch) THEN readPathEnd(readChar(l)) ELSE l

readPath(l) ==
    LET e == readPathEnd(l)
    IN  [l |-> e, lit |-> Slice(l.input, l.position, e.position)]

\* One- or two-character operator: two when the next character is `second`.
TwoChar(l, second, type2, lit2, type1, lit1, line, column) ==
    IF peekChar(l) = second
    THEN [tok |-> Token(type2, lit2, line, column), l |-> readChar(readChar(l))]
    ELSE [tok |-> Token(type1, lit1, line, column), l |-> readChar(l)]

OneChar(l, type, line, column) ==
    [tok |-> Token(type, l.ch, line, column), l |-> readChar(l)]

SingleCharTokens ==
    [x \in {"*", "/", "?", ".", ";", ":", ",", "(", ")", "{", "}", "[", "]"} |->
        CASE x = "*" -> "MULTIPLY"
          [] x = "/" -> "DIVIDE"
          [] x = "?" -> "QUESTION"
          [] x = "." -> "DOT"
          [] x = ";" -> "SEMICOLON"
          [] x = ":" -> "COLON"
          [] x = "," -> "COMMA"
          [] x = "(" -> "LPAREN"
          [] x = ")" -> "RPAREN"
          [] x = "{" -> "LBRACE"
          [] x = "}" -> "RBRACE"
          [] x = "[" -> "LBRACKET"
          [] x = "]" -> "RBRACKET"]

\* Returns [tok, l]: the token and the lexer after it.  A token of type
\* "PANIC" stands for the run-time panic of an out-of-range slice.
NextToken(l0) ==
    LET l == skipIgnored(l0)
        line == l.line
        column == l.column
        c == l.ch
    IN  CASE c = "=" -> TwoChar(l, "=", "EQ", "==", "ASSIGN", "=", line, column)
          [] c = "+" -> TwoChar(l, "+", "CONCAT", "++", "PLUS", "+", line, column)
          [] c = "-" -> TwoChar(l, ">", "IMPL", "->", "MINUS", "-", line, column)
          [] c = "!" -> TwoChar(l, "=", "NEQ", "!=", "NOT", "!", line, column)
          [] c = "<" -> TwoChar(l, "=", "LTE", "<=", "LT", "<", line, column)
          [] c = ">" -> TwoChar(l, "=", "GTE", ">=", "GT", ">", line, column)
          [] c = "&" -> TwoChar(l, "&", "AND_OP", "&&", "ILLEGAL", "&", line, column)
          [] c = "|" -> TwoChar(l, "|", "OR_OP", "||", "ILLEGAL", "|", line, column)
          [] c \in DOMAIN SingleCharTokens -> OneChar(l, SingleCharTokens[c], line, column)
          [] c = "\"" ->
                LET s == readString(l)
                IN  IF s.panics
                    THEN [tok |-> Token("PANIC", "", line, column), l |-> s.l]
                    ELSE [tok |-> Token("STRING", s.lit, line, column), l |-> readChar(s.l)]
          [] c = NUL -> [tok |-> Token("EOF", "", line, column), l |-> readChar(l)]
          [] OTHER ->
                IF isLetter(c)
                THEN LET r == readIdentifier(l)
                     IN  [tok |-> Token(LookupIdent(r.lit), r.lit, line, column), l |-> r.l]
                ELSE IF isDigit(c)
                THEN LET r == readNumber(l)
                     IN  [tok |-> Token(r.type, r.lit, line, column), l |-> r.l]
                ELSE IF c = "/" /\ unicodeIsLetter(peekChar(l))
                THEN LET r == readPath(l)
                     IN  [tok |-> Token("PATH", r.lit, line, column), l |-> r.l]
                ELSE OneChar(l, "ILLEGAL", line, column)

\* The lexer l has read past the last byte of its input.
AtEnd(l) == l.position > Len(l.input)

\* Every token of src up to and including the EOF at the end of the input
\* (or the PANIC).
RECURSIVE LexFrom(_, _)
LexFrom(l, acc) ==
    LET r == NextToken(l)
    IN  IF r.tok.Type = "PANIC" \/ (r.tok.Type = "EOF" /\ AtEnd(r.l))
        THEN Append(acc, r.tok)
        ELSE LexFrom(r.l, Append(acc, r.tok))

LexAll(src) == LexFrom(LexerNew(src), <<>>)

(***************************************************************************)
(* Expression trees.  A nil subtree is the record Nil.                     *)
(***************************************************************************)
Nil == [kind |-> "nil"]

IntExpr(n) == [kind |-> "Int", val |-> n]
FloatExpr(text) == [kind |-> "Float", text |-> text]
StringExpr(s) == [kind |-> "String", str |-> s]
PathExpr(s) == [kind |-> "Path", str |-> s]
BoolExpr(b) == [kind |-> "Bool", b |-> b]
NullExpr == [kind |-> "Null"]
IdentExpr(name) == [kind |-> "Ident", name |-> name]
ListExpr(elems) == [kind |-> "List", elems |-> elems]
AttrSetExpr(rec, bindings) == [kind |-> "AttrSet", recursive |-> rec, bindings |-> bindings]
AttrBinding(path, value) == [path |-> path, value |-> value]
BinaryExpr(left, op, right) == [kind |-> "Binary", left |-> left, op |-> op, right |-> right]
UnaryExpr(op, e) == [kind |-> "Unary", op |-> op, expr |-> e]
IfExpr(c, t, e) == [kind |-> "If", cond |-> c, then |-> t, else |-> e]
LetExpr(bindings, body) == [kind |-> "Let", bindings |-> bindings, body |-> body]
Binding(name, value) == [name |-> name, value |-> value]
WithExpr(e, body) == [kind |-> "With", expr |-> e, body |-> body]
AssertExpr(c, body) == [kind |-> "Assert", cond |-> c, body |-> body]
FunctionExpr(param, body) == [kind |-> "Function", param |-> param, body |-> body]
ApplyExpr(fn, arg) == [kind |-> "Apply", func |-> fn, arg |-> arg]
SelectExpr(e, path, default) ==
    [kind |-> "Select", expr |-> e, path |-> path, default |-> default]
HasAttrExpr(e, path) == [kind |-> "HasAttr", expr |-> e, path |-> path]

(***************************************************************************)
(* Parser                                                                  *)
(***************************************************************************)
precedenceLowest == 0
precedenceImpl == 1
precedenceOr == 2
precedenceAnd == 3
precedenceEquals == 4
precedenceCompare == 5
precedenceUpdate == 6
precedenceConcat == 7
precedenceSum == 8
precedenceProduct == 9
precedenceCall == 10
precedenceSelect == 11

precedenceMap ==
    [t \in {"IMPL", "OR_OP", "AND", "EQ", "NEQ", "LT", "GT", "LTE", "GTE",
            "CONCAT", "PLUS", "MINUS", "MULTIPLY", "DIVIDE", "DOT"} |->
        CASE t = "IMPL" -> precedenceImpl
          [] t = "OR_OP" -> precedenceOr
          [] t = "AND" -> precedenceAnd
          [] t \in {"EQ", "NEQ"} -> precedenceEquals
          [] t \in {"LT", "GT", "LTE", "GTE"} -> precedenceCompare
          [] t = "CONCAT" -> precedenceConcat
          [] t \in {"PLUS", "MINUS"} -> precedenceSum
          [] t \in {"MULTIPLY", "DIVIDE"} -> precedenceProduct
          [] t = "DOT" -> precedenceSelect]

\* The parser's token window over the token stream: cur is token i, peek is
\* token i + 1.  Past the EOF at the end of the input every further call of
\* NextToken returns EOF, one column further each time (readChar still
\* counts).
TokAt(tks, i) ==
    IF i >= 1 /\ i <= Len(tks) THEN tks[i]
    ELSE IF i > Len(tks) /\ Len(tks) > 0
    THEN Token("EOF", "", tks[Len(tks)].Line, tks[Len(tks)].Column + (i - Len(tks)))
    ELSE Token("EOF", "", 0, 0)

\* A parser: the window position, the errors so far, and whether a loop of
\* the parser has stopped consuming tokens (it then never returns).
ParserNew == [i |-> 1, errors |-> <<>>, hangs |-> FALSE]

cur(tks, p) == TokAt(tks, p.i)
peek(tks, p) == TokAt(tks, p.i + 1)
advance(p) == [p EXCEPT !.i = p.i + 1]
curIs(tks, p, t) == cur(tks, p).Type = t
peekIs(tks, p, t) == peek(tks, p).Type = t

ParseError(msg, line, column) == [Message |-> msg, Line |-> line, Column |-> column]

\* ParseErrors.Add / Addf
AddError(p, line, column, msg) ==
    [p EXCEPT !.errors = Append(p.errors, ParseError(msg, line, column))]

\* Returns [ok, p].
expectPeek(tks, p, t) ==
    IF peekIs(tks, p, t) THEN [ok |-> TRUE, p |-> advance(p)]
    ELSE [ok |-> FALSE,
          p |-> AddError(p, peek(tks, p).Line, peek(tks, p).Column,
                         "expected next token to be " \o t \o ", got " \o peek(tks, p).Type)]

peekPrecedence(tks, p) ==
    IF peek(tks, p).Type \in DOMAIN precedenceMap THEN precedenceMap[peek(tks, p).Type]
    ELSE precedenceLowest

curPrecedence(tks, p) ==
    IF cur(tks, p).Type \in DOMAIN precedenceMap THEN precedenceMap[cur(tks, p).Type]
    ELSE precedenceLowest

isInfixOperator(t) == t \in DOMAIN precedenceMap

couldBeArgument(tks, p) ==
    peek(tks, p).Type \in {"INT", "FLOAT", "STRING", "PATH", "IDENT", "LBRACE", "LBRACKET",
                           "LPAREN", "NOT", "MINUS", "IF", "LET", "WITH", "ASSERT"}

\* strconv.ParseInt on a run of decimal digits.  MaxDigits keeps the value
\* inside the model checker's integers; a literal the lexer produced has no
\* sign and no other character, so ParseInt fails on it only by overflow.
MaxDigits == 9

DigitValue(d) ==
    CASE d = "0" -> 0 [] d = "1" -> 1 [] d = "2" -> 2 [] d = "3" -> 3 [] d = "4" -> 4
      [] d = "5" -> 5 [] d = "6" -> 6 [] d = "7" -> 7 [] d = "8" -> 8 [] d = "9" -> 9

RECURSIVE DecimalValue(_, _)
DecimalValue(s, n) ==
    IF n = 0 THEN 0 ELSE 10 * DecimalValue(s, n - 1) + DigitValue(SubSeq(s, n, n))

\* Every parsing routine returns [e, p]: the subtree (Nil for nil) and the
\* parser after it.
Res(e, p) == [e |-> e, p |-> p]

parseInt(tks, p) ==
    LET lit == cur(tks, p).Literal
    IN  IF Len(lit) <= MaxDigits THEN Res(IntExpr(DecimalValue(lit, Len(lit))), p)
        ELSE Res(Nil, AddError(p, cur(tks, p).Line, cur(tks, p).Column,
                               "could not parse " \o lit \o " as integer"))

parseFloat(tks, p) == Res(FloatExpr(cur(tks, p).Literal), p)
parseString(tks, p) == Res(StringExpr(cur(tks, p).Literal), p)
parsePath(tks, p) == Res(PathExpr(cur(tks, p).Literal), p)

BinaryOpOf ==
    [t \in {"PLUS", "MINUS", "MULTIPLY", "DIVIDE", "CONCAT", "EQ", "NEQ", "LT", "GT",
            "LTE", "GTE", "AND", "OR_OP", "IMPL"} |->
        CASE t = "PLUS" -> "+" [] t = "MINUS" -> "-" [] t = "MULTIPLY" -> "*"
          [] t = "DIVIDE" -> "/" [] t = "CONCAT" -> "++" [] t = "EQ" -> "=="
          [] t = "NEQ" -> "!=" [] t = "LT" -> "<" [] t = "GT" -> ">"
          [] t = "LTE" -> "<=" [] t = "GTE" -> ">=" [] t = "AND" -> "&&"
          [] t = "OR_OP" -> "||" [] t = "IMPL" -> "->"]

RECURSIVE parseExpression(_, _, _), infixLoop(_, _, _, _), parsePrefixExpression(_, _),
          parseInfixExpression(_, _, _), parseListRest(_, _, _), parseAttrSetLoop(_, _, _, _),
          parseLetLoop(_, _, _), parseAttrPathRest(_, _, _)

\* parseAttrPath: [path, p], path = <<>> standing for the nil slice.
parseAttrPathRest(tks, p, path) ==
    IF ~peekIs(tks, p, "DOT") THEN [path |-> path, p |-> p]
    ELSE LET q == advance(advance(p))
         IN  IF ~curIs(tks, q, "IDENT") /\ ~curIs(tks, q, "STRING")
             THEN [path |-> <<>>,
                   p |-> AddError(q, cur(tks, q).Line, cur(tks, q).Column,
                                  "expected identifier or string after dot, got "
                                      \o cur(tks, q).Type)]
             ELSE parseAttrPathRest(tks, q, Append(path, cur(tks, q).Literal))

parseAttrPath(tks, p) ==
    IF ~curIs(tks, p, "IDENT") /\ ~curIs(tks, p, "STRING")
    THEN [path |-> <<>>,
          p |-> AddError(p, cur(tks, p).Line, cur(tks, p).Column,
                         "expected identifier or string, got " \o cur(tks, p).Type)]
    ELSE parseAttrPathRest(tks, p, <<cur(tks, p).Literal>>)

parseUnary(tks, p, op) ==
    LET r == parseExpression(tks, advance(p), precedenceCall)
    IN  Res(UnaryExpr(op, r.e), r.p)

parseBinary(tks, p, left, op) ==
    LET precedence == curPrecedence(tks, p)
        r == parseExpression(tks, advance(p), precedence)
    IN  Res(BinaryExpr(left, op, r.e), r.p)

parseGrouped(tks, p) ==
    LET r == parseExpression(tks, advance(p), precedenceLowest)
        x == expectPeek(tks, r.p, "RPAREN")
    IN  IF ~x.ok THEN Res(Nil, x.p) ELSE Res(r.e, x.p)

parseFunction(tks, p) ==
    LET param == cur(tks, p).Literal
        x == expectPeek(tks, p, "COLON")
    IN  IF ~x.ok THEN Res(Nil, x.p)
        ELSE LET r == parseExpression(tks, advance(x.p), precedenceLowest)
             IN  Res(FunctionExpr(param, r.e), r.p)

parseFunctionApplication(tks, p, fn) ==
    LET r == parseExpression(tks, p, precedenceCall)
    IN  Res(ApplyExpr(fn, r.e), r.p)

parseIdentifierOrFunction(tks, p) ==
    LET lit == cur(tks, p).Literal
    IN  CASE lit = "true" -> Res(BoolExpr(TRUE), p)
          [] lit = "false" -> Res(BoolExpr(FALSE), p)
          [] lit = "null" -> Res(NullExpr, p)
          [] OTHER -> IF peekIs(tks, p, "COLON") THEN parseFunction(tks, p)
                      ELSE Res(IdentExpr(lit), p)

\* The loop of parseList after the first element: [elems, p].
parseListRest(tks, p, elems) ==
    IF peekIs(tks, p, "RBRACKET") \/ peekIs(tks, p, "EOF") THEN [elems |-> elems, p |-> p]
    ELSE LET a == advance(p)
         IN  IF curIs(tks, a, "RBRACKET") THEN [elems |-> elems, p |-> a]
             ELSE LET b == IF curIs(tks, a, "COMMA") THEN advance(a) ELSE a
                  IN  IF curIs(tks, b, "RBRACKET") THEN [elems |-> elems, p |-> b]
                      ELSE LET r == parseExpression(tks, b, precedenceCall + 1)
                           IN  parseListRest(tks, r.p, Append(elems, r.e))

parseList(tks, p) ==
    LET a == advance(p)
    IN  IF curIs(tks, a, "RBRACKET") THEN Res(ListExpr(<<>>), a)
        ELSE LET first == parseExpression(tks, a, precedenceCall + 1)
                 rest == parseListRest(tks, first.p, <<first.e>>)
                 x == expectPeek(tks, rest.p, "RBRACKET")
             IN  IF ~x.ok THEN Res(Nil, x.p) ELSE Res(ListExpr(rest.elems), x.p)

\* parseBinding: [ok, binding, p]; ok = FALSE for the nil binding.
\* parseBinding after the value r: the semicolon y.
bindingEnd(path, r, y) ==
    IF ~y.ok THEN [ok |-> FALSE, p |-> y.p]
    ELSE [ok |-> TRUE, binding |-> AttrBinding(path, r.e), p |-> advance(y.p)]

\* parseBinding after the attribute path: the value r.
bindingValue(tks, path, r) == bindingEnd(path, r, expectPeek(tks, r.p, "SEMICOLON"))

\* parseBinding after the attribute path ap: the assignment sign x.
bindingAssign(tks, ap, x) ==
    IF ~x.ok THEN [ok |-> FALSE, p |-> x.p]
    ELSE bindingValue(tks, ap.path, parseExpression(tks, advance(x.p), precedenceLowest))

bindingAfterPath(tks, ap) ==
    IF ap.path = <<>> THEN [ok |-> FALSE, p |-> ap.p]
    ELSE bindingAssign(tks, ap, expectPeek(tks, ap.p, "ASSIGN"))

parseBinding(tks, p) == bindingAfterPath(tks, parseAttrPath(tks, p))

RECURSIVE skipToSemicolon(_, _)
skipToSemicolon(tks, p) ==
    IF ~curIs(tks, p, "SEMICOLON") /\ ~curIs(tks, p, "EOF")
    THEN skipToSemicolon(tks, advance(p)) ELSE p

parseInherit(tks, p) ==
    LET q == skipToSemicolon(tks, advance(p))
    IN  IF curIs(tks, q, "SEMICOLON") THEN advance(q) ELSE q

\* The binding loop of parseAttrSet.  An iteration that consumes no token
\* leaves the parser where it was, so the Go loop repeats it for ever,
\* appending an error each time: hangs.
\* b is what the iteration at p parsed.
afterBinding(tks, p, rec, bindings, b) ==
    LET bs == IF b.ok THEN Append(bindings, b.binding) ELSE bindings
    IN  IF curIs(tks, b.p, "RBRACE") THEN [bindings |-> bs, p |-> b.p]
        ELSE IF b.p.i = p.i THEN [bindings |-> bs, p |-> [b.p EXCEPT !.hangs = TRUE]]
        ELSE parseAttrSetLoop(tks, b.p, rec, bs)

parseAttrSetLoop(tks, p, rec, bindings) ==
    IF curIs(tks, p, "RBRACE") \/ curIs(tks, p, "EOF") THEN [bindings |-> bindings, p |-> p]
    ELSE afterBinding(tks, p, rec, bindings,
                      IF curIs(tks, p, "INHERIT")
                      THEN [ok |-> FALSE, p |-> parseInherit(tks, p)]
                      ELSE parseBinding(tks, p))

\* parseAttrSet after its binding loop r.
closeAttrSet(tks, rec, r) ==
    IF ~curIs(tks, r.p, "RBRACE")
    THEN Res(Nil, AddError(r.p, cur(tks, r.p).Line, cur(tks, r.p).Column,
                           "expected '}', got " \o cur(tks, r.p).Type))
    ELSE Res(AttrSetExpr(rec, r.bindings), r.p)

parseAttrSet(tks, p) ==
    LET a == advance(p)
        rec == curIs(tks, a, "REC")
        b == IF rec THEN advance(a) ELSE a
    IN  IF curIs(tks, b, "RBRACE") THEN Res(AttrSetExpr(rec, <<>>), b)
        ELSE closeAttrSet(tks, rec, parseAttrSetLoop(tks, b, rec, <<>>))

parseIf(tks, p) ==
    LET c == parseExpression(tks, advance(p), precedenceLowest)
        x == expectPeek(tks, c.p, "THEN")
    IN  IF ~x.ok THEN Res(Nil, x.p)
        ELSE LET t == parseExpression(tks, advance(x.p), precedenceLowest)
                 y == expectPeek(tks, t.p, "ELSE")
             IN  IF ~y.ok THEN Res(Nil, y.p)
                 ELSE LET e == parseExpression(tks, advance(y.p), precedenceLowest)
                      IN  Res(IfExpr(c.e, t.e, e.e), e.p)

\* The binding loop of parseLet: [ok, bindings, p]; ok = FALSE when the loop
\* returned nil.
parseLetLoop(tks, p, bindings) ==
    IF curIs(tks, p, "IN") \/ curIs(tks, p, "EOF") THEN [ok |-> TRUE, bindings |-> bindings, p |-> p]
    ELSE IF ~curIs(tks, p, "IDENT")
    THEN [ok |-> FALSE, bindings |-> bindings,
          p |-> AddError(p, cur(tks, p).Line, cur(tks, p).Column,
                         "expected identifier in let binding, got " \o cur(tks, p).Type)]
    ELSE LET name == cur(tks, p).Literal
             x == expectPeek(tks, p, "ASSIGN")
         IN  IF ~x.ok THEN [ok |-> FALSE, bindings |-> bindings, p |-> x.p]
             ELSE LET r == parseExpression(tks, advance(x.p), precedenceLowest)
                      bs == Append(bindings, Binding(name, r.e))
                      y == expectPeek(tks, r.p, "SEMICOLON")
                  IN  IF ~y.ok THEN [ok |-> FALSE, bindings |-> bs, p |-> y.p]
                      ELSE parseLetLoop(tks, advance(y.p), bs)

letBody(bindings, b) == Res(LetExpr(bindings, b.e), b.p)

\* parseLet after its binding loop r.
letIn(tks, r) ==
    IF ~r.ok THEN Res(Nil, r.p)
    ELSE IF ~curIs(tks, r.p, "IN")
    THEN Res(Nil, AddError(r.p, cur(tks, r.p).Line, cur(tks, r.p).Column,
                           "expected 'in' after let bindings, got " \o cur(tks, r.p).Type))
    ELSE letBody(r.bindings, parseExpression(tks, advance(r.p), precedenceLowest))

parseLet(tks, p) == letIn(tks, parseLetLoop(tks, advance(p), <<>>))

parseWith(tks, p) ==
    LET e == parseExpression(tks, advance(p), precedenceLowest)
        x == expectPeek(tks, e.p, "SEMICOLON")
    IN  IF ~x.ok THEN Res(Nil, x.p)
        ELSE LET b == parseExpression(tks, advance(x.p), precedenceLowest)
             IN  Res(WithExpr(e.e, b.e), b.p)

parseAssert(tks, p) ==
    LET c == parseExpression(tks, advance(p), precedenceLowest)
        x == expectPeek(tks, c.p, "SEMICOLON")
    IN  IF ~x.ok THEN Res(Nil, x.p)
        ELSE LET b == parseExpression(tks, advance(x.p), precedenceLowest)
             IN  Res(AssertExpr(c.e, b.e), b.p)

selectPath(e, ap) ==
    IF ap.path = <<>> THEN Res(Nil, ap.p) ELSE Res(SelectExpr(e, ap.path, Nil), ap.p)

parseSelect(tks, p, e) == selectPath(e, parseAttrPath(tks, advance(p)))

hasAttrPath(e, ap) ==
    IF ap.path = <<>> THEN Res(Nil, ap.p) ELSE Res(HasAttrExpr(e, ap.path), ap.p)

parseHasAttr(tks, p, e) == hasAttrPath(e, parseAttrPath(tks, advance(p)))

parseOrDefault(tks, p, e) ==
    IF e.kind # "Select"
    THEN Res(Nil, AddError(p, cur(tks, p).Line, cur(tks, p).Column,
                           "'or' can only be used with attribute selection"))
    ELSE LET d == parseExpression(tks, advance(p), precedenceLowest)
         IN  Res([e EXCEPT !.default = d.e], d.p)

parsePrefixExpression(tks, p) ==
    LET t == cur(tks, p).Type
    IN  CASE t = "INT" -> parseInt(tks, p)
          [] t = "FLOAT" -> parseFloat(tks, p)
          [] t = "STRING" -> parseString(tks, p)
          [] t = "PATH" -> parsePath(tks, p)
          [] t = "IDENT" -> parseIdentifierOrFunction(tks, p)
          [] t = "IF" -> parseIf(tks, p)
          [] t = "LET" -> parseLet(tks, p)
          [] t = "WITH" -> parseWith(tks, p)
          [] t = "ASSERT" -> parseAssert(tks, p)
          [] t = "NOT" -> parseUnary(tks, p, "!")
          [] t = "MINUS" -> parseUnary(tks, p, "-")
          [] t = "LBRACE" -> parseAttrSet(tks, p)
          [] t = "LBRACKET" -> parseList(tks, p)
          [] t = "LPAREN" -> parseGrouped(tks, p)
          [] OTHER -> Res(Nil, AddError(p, cur(tks, p).Line, cur(tks, p).Column,
                                        "no prefix parse function for " \o t))

parseInfixExpression(tks, p, left) ==
    LET t == cur(tks, p).Type
    IN  CASE t \in DOMAIN BinaryOpOf -> parseBinary(tks, p, left, BinaryOpOf[t])
          [] t = "DOT" -> parseSelect(tks, p, left)
          [] t = "QUESTION" -> parseHasAttr(tks, p, left)
          [] t = "OR" -> parseOrDefault(tks, p, left)
          [] OTHER -> Res(Nil, AddError(p, cur(tks, p).Line, cur(tks, p).Column,
                                        "no infix parse function for " \o t))

\* The for loop of parseExpression.
infixLoop(tks, p, prefix, precedence) ==
    IF peekIs(tks, p, "SEMICOLON") \/ peekIs(tks, p, "EOF") THEN Res(prefix, p)
    ELSE IF precedence >= peekPrecedence(tks, p) /\ ~couldBeArgument(tks, p) THEN Res(prefix, p)
    ELSE IF isInfixOperator(peek(tks, p).Type)
    THEN LET r == parseInfixExpression(tks, advance(p), prefix)
         IN  infixLoop(tks, r.p, r.e, precedence)
    ELSE IF couldBeArgument(tks, p) /\ precedence < precedenceCall
    THEN LET r == parseFunctionApplication(tks, advance(p), prefix)
         IN  infixLoop(tks, r.p, r.e, precedence)
    ELSE Res(prefix, p)

\* parseExpression after its prefix expression r.
afterPrefix(tks, r, precedence) ==
    IF r.e = Nil THEN r ELSE infixLoop(tks, r.p, r.e, precedence)

parseExpression(tks, p, precedence) ==
    afterPrefix(tks, parsePrefixExpression(tks, p), precedence)

\* Parse: [tree, errors, hangs]; the tree is Nil when there are errors.
ParseOutcome(r) ==
    [tree |-> IF Len(r.p.errors) > 0 THEN Nil ELSE r.e,
     errors |-> r.p.errors,
     hangs |-> r.p.hangs]

Parse(tks) == ParseOutcome(parseExpression(tks, ParserNew, precedenceLowest))

(***************************************************************************)
(* Values, the heap, environments                                          *)
(***************************************************************************)
VNull == [kind |-> "Null"]
VBool(b) == [kind |-> "Bool", b |-> b]
VInt(n) == [kind |-> "Int", val |-> n]
\* A float is kept as a fraction in lowest terms with a positive denominator.
VFloat(num, den) == [kind |-> "Float", num |-> num, den |-> den]
VString(s) == [kind |-> "String", str |-> s]
VPath(s) == [kind |-> "Path", str |-> s]
\* NewList copies its elements: a list is a value of its own.
VList(elems) == [kind |-> "List", elems |-> elems]
\* *Attrs: a pointer to a map in the heap.
VAttrs(ref) == [kind |-> "Attrs", ref |-> ref]
\* *Function: parameter, body and the captured environment frame (a pointer).
VFunction(param, body, env) == [kind |-> "Function", param |-> param, body |-> body, env |-> env]
VBuiltin(name) == [kind |-> "Builtin", name |-> name]
\* The nil Value returned beside an error.
NilValue == [kind |-> "nil"]

EmptyMap == [x \in {} |-> NilValue]

MapSet(m, k, v) == [x \in DOMAIN m \cup {k} |-> IF x = k THEN v ELSE m[x]]

EmptyHeap == [envs |-> <<>>, attrs |-> <<>>]

\* NewEnv: [h, env]
NewEnv(h) ==
    [h |-> [h EXCEPT !.envs = Append(h.envs, [bindings |-> EmptyMap, parent |-> 0])],
     env |-> Len(h.envs) + 1]

RECURSIVE EnvGet(_, _, _)
EnvGet(h, env, name) ==
    LET f == h.envs[env]
    IN  IF name \in DOMAIN f.bindings THEN [ok |-> TRUE, val |-> f.bindings[name]]
        ELSE IF f.parent # 0 THEN EnvGet(h, f.parent, name)
        ELSE [ok |-> FALSE, val |-> NilValue]

EnvSet(h, env, name, v) ==
    [h EXCEPT !.envs[env].bindings = MapSet(h.envs[env].bindings, name, v)]

\* Extend: [h, env]
EnvExtend(h, env) ==
    [h |-> [h EXCEPT !.envs = Append(h.envs, [bindings |-> EmptyMap, parent |-> env])],
     env |-> Len(h.envs) + 1]

\* NewAttrs: [h, ref]
NewAttrs(h) ==
    [h |-> [h EXCEPT !.attrs = Append(h.attrs, EmptyMap)], ref |-> Len(h.attrs) + 1]

AttrsHas(h, ref, key) == key \in DOMAIN h.attrs[ref]
AttrsGet(h, ref, key) == h.attrs[ref][key]
AttrsSet(h, ref, key, v) == [h EXCEPT !.attrs[ref] = MapSet(h.attrs[ref], key, v)]
AttrsLen(h, ref) == Cardinality(DOMAIN h.attrs[ref])

\* Byte order of strings, for sort.Strings and for < on strings: the
\* printable characters in increasing byte value.
Ascii == " !\"#$%&'()*+,-./0123456789:;<=>?@ABCDEFGHIJKLMNOPQRSTUVWXYZ[\\]^_abcdefghijklmnopqrstuvwxyz{|}~"

CharCode(c) == CHOOSE i \in 1..Len(Ascii) : SubSeq(Ascii, i, i) = c

RECURSIVE StrLessFrom(_, _, _)
StrLessFrom(a, b, i) ==
    IF i > Len(b) THEN FALSE
    ELSE IF i > Len(a) THEN TRUE
    ELSE IF SubSeq(a, i, i) = SubSeq(b, i, i) THEN StrLessFrom(a, b, i + 1)
    ELSE CharCode(SubSeq(a, i, i)) < CharCode(SubSeq(b, i, i))

StrLess(a, b) == StrLessFrom(a, b, 1)

RECURSIVE SortStrings(_)
SortStrings(S) ==
    IF S = {} THEN <<>>
    ELSE LET m == CHOOSE x \in S : \A y \in S : y = x \/ StrLess(x, y)
         IN  <<m>> \o SortStrings(S \ {m})

\* Attrs.Keys: the keys in sorted order.
AttrsKeys(h, ref) == SortStrings(DOMAIN h.attrs[ref])

\* Equals.  Functions equal nothing, themselves included; builtins compare
\* by name; lists and attribute sets compare deeply.
RECURSIVE ValueEquals(_, _, _)
ValueEquals(h, a, b) ==
    CASE a.kind = "Function" -> FALSE
      [] a.kind # b.kind -> FALSE
      [] a.kind = "List" ->
            /\ Len(a.elems) = Len(b.elems)
            /\ \A i \in 1..Len(a.elems) : ValueEquals(h, a.elems[i], b.elems[i])
      [] a.kind = "Attrs" ->
            /\ DOMAIN h.attrs[a.ref] = DOMAIN h.attrs[b.ref]
            /\ \A k \in DOMAIN h.attrs[a.ref] :
                  ValueEquals(h, h.attrs[a.ref][k], h.attrs[b.ref][k])
      [] OTHER -> a = b

(***************************************************************************)
(* Evaluation results and the operators on values                          *)
(***************************************************************************)
\* (Value, error) beside the heap the evaluation leaves behind.
Ok(v, h) == [ok |-> TRUE, err |-> "", val |-> v, h |-> h]
Fail(msg, h) == [ok |-> FALSE, err |-> msg, val |-> NilValue, h |-> h]

\* Type is a byte without a String method: %v prints its number.
TypeName(v) ==
    CASE v.kind = "Null" -> "0" [] v.kind = "Bool" -> "1" [] v.kind = "Int" -> "2"
      [] v.kind = "Float" -> "3" [] v.kind = "String" -> "4" [] v.kind = "Path" -> "5"
      [] v.kind = "List" -> "6" [] v.kind = "Attrs" -> "7" [] v.kind = "Function" -> "8"
      [] v.kind = "Builtin" -> "9"

Abs(n) == IF n < 0 THEN -n ELSE n

RECURSIVE Gcd(_, _)
Gcd(a, b) == IF b = 0 THEN a ELSE Gcd(b, a % b)

\* A float from a fraction num/den, den # 0.
MkFloat(num, den) ==
    LET g == Gcd(Abs(num), Abs(den))
        sgn == IF den < 0 THEN -1 ELSE 1
    IN  VFloat(sgn * (num \div g), sgn * (den \div g))

RECURSIVE Pow10(_)
Pow10(n) == IF n = 0 THEN 1 ELSE 10 * Pow10(n - 1)

RECURSIVE DotIndex(_, _)
DotIndex(s, i) == IF i > Len(s) THEN 0 ELSE IF SubSeq(s, i, i) = "." THEN i ELSE DotIndex(s, i + 1)

\* strconv.ParseFloat on the text the lexer reads: digits, a dot, digits.
FloatOfText(text) ==
    LET d == DotIndex(text, 1)
        digits == SubSeq(text, 1, d - 1) \o SubSeq(text, d + 1, Len(text))
    IN  MkFloat(DecimalValue(digits, Len(digits)), Pow10(Len(text) - d))

\* float64(x) of an Int or a Float.
ToFloat(v) == IF v.kind = "Int" THEN VFloat(v.val, 1) ELSE v

FloatAdd(a, b) == MkFloat(a.num * b.den + b.num * a.den, a.den * b.den)
FloatSub(a, b) == MkFloat(a.num * b.den - b.num * a.den, a.den * b.den)
FloatMul(a, b) == MkFloat(a.num * b.num, a.den * b.den)
FloatDiv(a, b) == MkFloat(a.num * b.den, a.den * b.num)
FloatLess(a, b) == a.num * b.den < b.num * a.den

IsNumber(v) == v.kind \in {"Int", "Float"}

evalAdd(left, right, h) ==
    CASE left.kind = "Int" ->
            (CASE right.kind = "Int" -> Ok(VInt(left.val + right.val), h)
               [] right.kind = "Float" -> Ok(FloatAdd(ToFloat(left), right), h)
               [] OTHER -> Fail("cannot add " \o TypeName(right) \o " to int", h))
      [] left.kind = "Float" ->
            (CASE IsNumber(right) -> Ok(FloatAdd(left, ToFloat(right)), h)
               [] OTHER -> Fail("cannot add " \o TypeName(right) \o " to float", h))
      [] left.kind = "String" ->
            IF right.kind = "String" THEN Ok(VString(left.str \o right.str), h)
            ELSE Fail("cannot add " \o TypeName(right) \o " to string", h)
      [] OTHER -> Fail("cannot add values of type " \o TypeName(left), h)

evalSub(left, right, h) ==
    CASE left.kind = "Int" ->
            (CASE right.kind = "Int" -> Ok(VInt(left.val - right.val), h)
               [] right.kind = "Float" -> Ok(FloatSub(ToFloat(left), right), h)
               [] OTHER -> Fail("cannot subtract " \o TypeName(right) \o " from int", h))
      [] left.kind = "Float" ->
            (CASE IsNumber(right) -> Ok(FloatSub(left, ToFloat(right)), h)
               [] OTHER -> Fail("cannot subtract " \o TypeName(right) \o " from float", h))
      [] OTHER -> Fail("cannot subtract from " \o TypeName(left), h)

evalMul(left, right, h) ==
    CASE left.kind = "Int" ->
            (CASE right.kind = "Int" -> Ok(VInt(left.val * right.val), h)
               [] right.kind = "Float" -> Ok(FloatMul(ToFloat(left), right), h)
               [] OTHER -> Fail("cannot multiply int by " \o TypeName(right), h))
      [] left.kind = "Float" ->
            (CASE IsNumber(right) -> Ok(FloatMul(left, ToFloat(right)), h)
               [] OTHER -> Fail("cannot multiply float by " \o TypeName(right), h))
      [] OTHER -> Fail("cannot multiply " \o TypeName(left), h)

\* A division that keeps an exact quotient of two integers an integer.
evalDivExactInt(left, right, h) ==
    IF (right.kind = "Int" /\ right.val = 0) \/ (right.kind = "Float" /\ right.num = 0)
    THEN Fail("division by zero", h)
    ELSE IF left.kind = "Int" /\ right.kind = "Int" /\ left.val % Abs(right.val) = 0
    THEN Ok(VInt(FloatDiv(ToFloat(left), ToFloat(right)).num), h)
    ELSE IF IsNumber(left) /\ IsNumber(right)
    THEN Ok(FloatDiv(ToFloat(left), ToFloat(right)), h)
    ELSE Fail("cannot divide", h)

evalDiv(left, right, h) ==
    IF (right.kind = "Int" /\ right.val = 0) \/ (right.kind = "Float" /\ right.num = 0)
    THEN Fail("division by zero", h)
    ELSE CASE left.kind = "Int" ->
                (CASE IsNumber(right) -> Ok(FloatDiv(ToFloat(left), ToFloat(right)), h)
                   [] OTHER -> Fail("cannot divide int by " \o TypeName(right), h))
           [] left.kind = "Float" ->
                (CASE IsNumber(right) -> Ok(FloatDiv(left, ToFloat(right)), h)
                   [] OTHER -> Fail("cannot divide float by " \o TypeName(right), h))
           [] OTHER -> Fail("cannot divide " \o TypeName(left), h)

evalConcat(left, right, h) ==
    IF left.kind # "List" \/ right.kind # "List"
    THEN Fail("++ operator requires two lists, got " \o TypeName(left) \o " and "
              \o TypeName(right), h)
    ELSE Ok(VList(left.elems \o right.elems), h)

evalLess(left, right, h) ==
    CASE left.kind = "Int" ->
            (CASE right.kind = "Int" -> Ok(VBool(left.val < right.val), h)
               [] right.kind = "Float" -> Ok(VBool(FloatLess(ToFloat(left), right)), h)
               [] OTHER -> Fail("cannot compare int with " \o TypeName(right), h))
      [] left.kind = "Float" ->
            (CASE IsNumber(right) -> Ok(VBool(FloatLess(left, ToFloat(right))), h)
               [] OTHER -> Fail("cannot compare float with " \o TypeName(right), h))
      [] left.kind = "String" ->
            IF right.kind = "String" THEN Ok(VBool(StrLess(left.str, right.str)), h)
            ELSE Fail("cannot compare string with " \o TypeName(right), h)
      [] OTHER -> Fail("cannot compare " \o TypeName(left), h)

evalGreater(left, right, h) == evalLess(right, left, h)

evalLessEq(left, right, h) ==
    LET less == evalLess(left, right, h)
    IN  IF ~less.ok THEN less
        ELSE IF less.val.b THEN Ok(VBool(TRUE), h)
        ELSE Ok(VBool(ValueEquals(h, left, right)), h)

evalGreaterEq(left, right, h) ==
    LET greater == evalGreater(left, right, h)
    IN  IF ~greater.ok THEN greater
        ELSE IF greater.val.b THEN Ok(VBool(TRUE), h)
        ELSE Ok(VBool(ValueEquals(h, left, right)), h)

\* Copies the keys of a sequence of keys from one map of the heap into another.
RECURSIVE CopyKeys(_, _, _, _, _)
CopyKeys(h, from, to, keys, i) ==
    IF i > Len(keys) THEN h
    ELSE CopyKeys(AttrsSet(h, to, keys[i], AttrsGet(h, from, keys[i])), from, to, keys, i + 1)

\* A faulty update in which the left operand wins on a shared key.
evalUpdateLeftWins(left, right, h) ==
    IF left.kind # "Attrs" \/ right.kind # "Attrs"
    THEN Fail("// operator requires two attribute sets, got " \o TypeName(left) \o " and "
              \o TypeName(right), h)
    ELSE LET n == NewAttrs(h)
             h1 == CopyKeys(n.h, right.ref, n.ref, AttrsKeys(n.h, right.ref), 1)
             h2 == CopyKeys(h1, left.ref, n.ref, AttrsKeys(h1, left.ref), 1)
         IN  Ok(VAttrs(n.ref), h2)

evalUpdate(left, right, h) ==
    IF left.kind # "Attrs" \/ right.kind # "Attrs"
    THEN Fail("// operator requires two attribute sets, got " \o TypeName(left) \o " and "
              \o TypeName(right), h)
    ELSE LET n == NewAttrs(h)
             h1 == CopyKeys(n.h, left.ref, n.ref, AttrsKeys(n.h, left.ref), 1)
             h2 == CopyKeys(h1, right.ref, n.ref, AttrsKeys(h1, right.ref), 1)
         IN  Ok(VAttrs(n.ref), h2)

(***************************************************************************)
(* Built-in functions                                                      *)
(***************************************************************************)
RECURSIVE FracDigits(_, _, _)
FracDigits(r, den, n) ==
    IF r = 0 \/ n = 0 THEN ""
    ELSE ToString((r * 10) \div den) \o FracDigits((r * 10) % den, den, n - 1)

\* The decimal text of a float: the whole part and, when there is one, the
\* fraction, to the 17 significant digits a float64 carries.
FormatFloat(f) ==
    LET a == Abs(f.num)
        frac == FracDigits(a % f.den, f.den, 17)
    IN  (IF f.num < 0 THEN "-" ELSE "") \o ToString(a \div f.den)
        \o (IF frac = "" THEN "" ELSE "." \o frac)

builtinArity ==
    [isNull |-> 1, isBool |-> 1, isInt |-> 1, isFloat |-> 1, isString |-> 1, isList |-> 1,
     isAttrs |-> 1, isFunction |-> 1, toString |-> 1, length |-> 1, head |-> 1, tail |-> 1,
     elem |-> 2, attrNames |-> 1, attrValues |-> 1, hasAttr |-> 2, getAttr |-> 2,
     add |-> 2, sub |-> 2, mul |-> 2, div |-> 2, derivation |-> 1]

\* e.builtins after registerBuiltins.
registerBuiltins ==
    [n \in DOMAIN builtinArity \cup {"true", "false", "null"} |->
        CASE n = "true" -> VBool(TRUE)
          [] n = "false" -> VBool(FALSE)
          [] n = "null" -> VNull
          [] OTHER -> VBuiltin(n)]

builtinToString(args, h) ==
    LET v == args[1]
    IN  CASE v.kind = "String" -> Ok(v, h)
          [] v.kind = "Int" -> Ok(VString(ToString(v.val)), h)
          [] v.kind = "Float" -> Ok(VString(FormatFloat(v)), h)
          [] v.kind = "Bool" -> Ok(VString(IF v.b THEN "true" ELSE "false"), h)
          [] v.kind = "Null" -> Ok(VString("null"), h)
          [] v.kind = "Path" -> Ok(VString(v.str), h)
          [] OTHER -> Fail("cannot convert " \o TypeName(v) \o " to string", h)

builtinLength(args, h) ==
    LET v == args[1]
    IN  CASE v.kind = "List" -> Ok(VInt(Len(v.elems)), h)
          [] v.kind = "String" -> Ok(VInt(Len(v.str)), h)
          [] v.kind = "Attrs" -> Ok(VInt(AttrsLen(h, v.ref)), h)
          [] OTHER -> Fail("length expects a list, string, or attrset, got " \o TypeName(v), h)

builtinHead(args, h) ==
    IF args[1].kind # "List" THEN Fail("head expects a list, got " \o TypeName(args[1]), h)
    ELSE IF Len(args[1].elems) = 0 THEN Fail("head called on empty list", h)
    ELSE Ok(args[1].elems[1], h)

builtinTail(args, h) ==
    IF args[1].kind # "List" THEN Fail("tail expects a list, got " \o TypeName(args[1]), h)
    ELSE IF Len(args[1].elems) = 0 THEN Fail("tail called on empty list", h)
    ELSE Ok(VList(Tail(args[1].elems)), h)

\* A faulty elem that never looks at the last element of the list.
builtinElemSkipLast(args, h) ==
    LET elem == args[1]
        list == args[2]
    IN  IF list.kind # "List"
        THEN Fail("elem expects a list as second argument, got " \o TypeName(list), h)
        ELSE Ok(VBool(\E i \in 1..(Len(list.elems) - 1) :
                        ValueEquals(h, elem, list.elems[i])), h)

builtinElem(args, h) ==
    LET elem == args[1]
        list == args[2]
    IN  IF list.kind # "List"
        THEN Fail("elem expects a list as second argument, got " \o TypeName(list), h)
        ELSE Ok(VBool(\E i \in 1..Len(list.elems) : ValueEquals(h, elem, list.elems[i])), h)

builtinAttrNames(args, h) ==
    IF args[1].kind # "Attrs"
    THEN Fail("attrNames expects an attribute set, got " \o TypeName(args[1]), h)
    ELSE LET keys == AttrsKeys(h, args[1].ref)
         IN  Ok(VList([i \in 1..Len(keys) |-> VString(keys[i])]), h)

builtinAttrValues(args, h) ==
    IF args[1].kind # "Attrs"
    THEN Fail("attrValues expects an attribute set, got " \o TypeName(args[1]), h)
    ELSE LET keys == AttrsKeys(h, args[1].ref)
         IN  Ok(VList([i \in 1..Len(keys) |-> AttrsGet(h, args[1].ref, keys[i])]), h)

builtinHasAttr(args, h) ==
    IF args[1].kind # "String"
    THEN Fail("hasAttr expects a string as first argument, got " \o TypeName(args[1]), h)
    ELSE IF args[2].kind # "Attrs"
    THEN Fail("hasAttr expects an attribute set as second argument, got "
              \o TypeName(args[2]), h)
    ELSE Ok(VBool(AttrsHas(h, args[2].ref, args[1].str)), h)

builtinGetAttr(args, h) ==
    IF args[1].kind # "String"
    THEN Fail("getAttr expects a string as first argument, got " \o TypeName(args[1]), h)
    ELSE IF args[2].kind # "Attrs"
    THEN Fail("getAttr expects an attribute set as second argument, got "
              \o TypeName(args[2]), h)
    ELSE IF ~AttrsHas(h, args[2].ref, args[1].str)
    THEN Fail("attribute '\"" \o args[1].str \o "\"' not found", h)
    ELSE Ok(AttrsGet(h, args[2].ref, args[1].str), h)

(***************************************************************************)
(* Derivations (pkg/derivation)                                            *)
(***************************************************************************)
\* strings.Join
RECURSIVE JoinStrings(_, _, _)
JoinStrings(parts, sep, i) ==
    IF i > Len(parts) THEN ""
    ELSE IF i = Len(parts) THEN parts[i]
    ELSE parts[i] \o sep \o JoinStrings(parts, sep, i + 1)

\* One step of filepath.Clean on a rooted path: an empty element and "."
\* are dropped, ".." removes the element before it (none at the root).
CleanElement(elems, e) ==
    IF e = "" \/ e = "." THEN elems
    ELSE IF e = ".." THEN (IF Len(elems) = 0 THEN elems ELSE SubSeq(elems, 1, Len(elems) - 1))
    ELSE Append(elems, e)

RECURSIVE CleanFrom(_, _, _, _)
CleanFrom(path, i, el, elems) ==
    IF i > Len(path) THEN CleanElement(elems, el)
    ELSE IF SubSeq(path, i, i) = "/" THEN CleanFrom(path, i + 1, "", CleanElement(elems, el))
    ELSE CleanFrom(path, i + 1, el \o SubSeq(path, i, i), elems)

\* filepath.Clean of a rooted path.
Clean(path) == "/" \o JoinStrings(CleanFrom(path, 1, "", <<>>), "/", 1)

\* filepath.Join of a rooted directory and a name.
filepathJoin(dir, name) == Clean(dir \o "/" \o name)

HexDigits == "0123456789abcdef"

\* The byte value of a printable character; 0 for any other.
CodeOf(c) == IF \E k \in 1..Len(Ascii) : SubSeq(Ascii, k, k) = c THEN CharCode(c) ELSE 0

\* A 16-bit checksum of content[lo..hi], computed by halves.
RECURSIVE Checksum(_, _, _)
Checksum(content, lo, hi) ==
    IF lo > hi THEN 7
    ELSE IF lo = hi THEN CodeOf(SubSeq(content, lo, lo))
    ELSE (Checksum(content, lo, (lo + hi) \div 2) * 31
          + Checksum(content, ((lo + hi) \div 2) + 1, hi) + (hi - lo)) % 65536

Hex4(n) ==
    SubSeq(HexDigits, (n \div 4096) + 1, (n \div 4096) + 1)
    \o SubSeq(HexDigits, ((n \div 256) % 16) + 1, ((n \div 256) % 16) + 1)
    \o SubSeq(HexDigits, ((n \div 16) % 16) + 1, ((n \div 16) % 16) + 1)
    \o SubSeq(HexDigits, (n % 16) + 1, (n % 16) + 1)

Repeat8(x) == x \o x \o x \o x \o x \o x \o x \o x

\* hex.EncodeToString(sha256.Sum256(content))[:32].  Of SHA-256 the model
\* keeps that the digest is a function of the content alone, written as 32
\* lowercase hexadecimal digits; the digits come from a 16-bit checksum.
Digest32(content) == Repeat8(Hex4(Checksum(content, 1, Len(content))))

\* NewDerivation
NewDerivation(name) ==
    [Name |-> name, Builder |-> "", Args |-> <<>>, Env |-> [x \in {} |-> ""],
     Outputs |-> [x \in {} |-> ""], System |-> "x86_64-linux", Hash |-> "", StorePath |-> ""]

AddEnv(drv, key, val) == [drv EXCEPT !.Env = MapSet(drv.Env, key, val)]

RECURSIVE EnvParts(_, _)
EnvParts(env, keys) ==
    IF Len(keys) = 0 THEN <<>>
    ELSE <<"env." \o keys[1] \o "=" \o env[keys[1]]>> \o EnvParts(env, Tail(keys))

\* The text computeHash hashes: its parts joined by newlines.  A derivation
\* made by FromAttrs has no input derivation and no input source, so these
\* parts are empty.
HashContent(drv) ==
    JoinStrings(<<"name=" \o drv.Name, "builder=" \o drv.Builder,
                  "args=" \o JoinStrings(drv.Args, ",", 1), "system=" \o drv.System>>
                \o EnvParts(drv.Env, SortStrings(DOMAIN drv.Env)), "\n", 1)

computeHash(drv) == Digest32(HashContent(drv))

computeStorePath(drv) == "/nix/store/" \o drv.Hash \o "-" \o drv.Name

WithHashOf(drv) == [drv EXCEPT !.Hash = computeHash(drv)]
WithStorePathOf(drv) == [drv EXCEPT !.StorePath = computeStorePath(drv)]

\* The last loop of Build: an output without a path gets one.
SetOutputPaths(drv) ==
    [drv EXCEPT !.Outputs = [n \in DOMAIN drv.Outputs |->
        IF drv.Outputs[n] = "" THEN filepathJoin(drv.StorePath, n) ELSE drv.Outputs[n]]]

\* DerivationBuilder.Build
Build(drv) ==
    SetOutputPaths(WithStorePathOf(WithHashOf(AddEnv(
        IF DOMAIN drv.Outputs = {} THEN [drv EXCEPT !.Outputs = MapSet(drv.Outputs, "out", "")]
        ELSE drv, "pname", drv.Name))))

\* The args of FromAttrs: a list element that is no string leaves "".
ArgStrings(elems) == [i \in 1..Len(elems) |-> IF elems[i].kind = "String" THEN elems[i].str ELSE ""]

ReservedKeys == {"name", "builder", "system", "args", "outputs"}

RECURSIVE AddEnvs(_, _, _, _)
AddEnvs(drv, h, ref, keys) ==
    IF Len(keys) = 0 THEN drv
    ELSE AddEnvs(IF keys[1] \notin ReservedKeys /\ AttrsGet(h, ref, keys[1]).kind = "String"
                 THEN AddEnv(drv, keys[1], AttrsGet(h, ref, keys[1]).str) ELSE drv,
                 h, ref, Tail(keys))

DrvFail(msg) == [ok |-> FALSE, err |-> msg, drv |-> NewDerivation("")]

\* FromAttrs: [ok, err, drv]
FromAttrs(h, ref) ==
    IF ~AttrsHas(h, ref, "name") THEN DrvFail("derivation missing required 'name' attribute")
    ELSE IF AttrsGet(h, ref, "name").kind # "String"
    THEN DrvFail("derivation 'name' must be a string")
    ELSE IF ~AttrsHas(h, ref, "builder")
    THEN DrvFail("derivation missing required 'builder' attribute")
    ELSE IF AttrsGet(h, ref, "builder").kind # "String"
    THEN DrvFail("derivation 'builder' must be a string")
    ELSE [ok |-> TRUE, err |-> "",
          drv |-> Build(AddEnvs(
              [NewDerivation(AttrsGet(h, ref, "name").str) EXCEPT
                  !.Builder = AttrsGet(h, ref, "builder").str,
                  !.System = IF AttrsHas(h, ref, "system")
                                /\ AttrsGet(h, ref, "system").kind = "String"
                             THEN AttrsGet(h, ref, "system").str ELSE @,
                  !.Args = IF AttrsHas(h, ref, "args") /\ AttrsGet(h, ref, "args").kind = "List"
                           THEN ArgStrings(AttrsGet(h, ref, "args").elems) ELSE @],
              h, ref, AttrsKeys(h, ref)))]

\* Derivation.ToAttrs: the set attrs, then the set outAttrs, in a heap that
\* has room for both.
ToAttrsIn(drv, h, attrs, outAttrs) ==
    [h EXCEPT !.attrs[outAttrs] = [n \in DOMAIN drv.Outputs |-> VString(drv.Outputs[n])],
              !.attrs[attrs] =
                  [k \in {"name", "builder", "system", "drvPath", "args", "outputs"}
                         \cup DOMAIN drv.Outputs |->
                      IF k \in DOMAIN drv.Outputs THEN VString(drv.Outputs[k])
                      ELSE CASE k = "name" -> VString(drv.Name)
                             [] k = "builder" -> VString(drv.Builder)
                             [] k = "system" -> VString(drv.System)
                             [] k = "drvPath" -> VString(drv.StorePath \o ".drv")
                             [] k = "args" -> VList([i \in 1..Len(drv.Args) |-> VString(drv.Args[i])])
                             [] k = "outputs" -> VAttrs(outAttrs)]]

ToAttrs(drv, h) ==
    Ok(VAttrs(Len(h.attrs) + 1),
       ToAttrsIn(drv, NewAttrs(NewAttrs(h).h).h, Len(h.attrs) + 1, Len(h.attrs) + 2))

builtinDerivationFrom(r, h) ==
    IF ~r.ok THEN Fail("invalid derivation: " \o r.err, h) ELSE ToAttrs(r.drv, h)

builtinDerivation(args, h) ==
    IF args[1].kind # "Attrs"
    THEN Fail("derivation expects an attribute set, got " \o TypeName(args[1]), h)
    ELSE builtinDerivationFrom(FromAttrs(h, args[1].ref), h)

\* The implementation registered under a name, called with its argument slice.
builtinFn(name, args, h) ==
    CASE name = "isNull" -> Ok(VBool(args[1].kind = "Null"), h)
      [] name = "isBool" -> Ok(VBool(args[1].kind = "Bool"), h)
      [] name = "isInt" -> Ok(VBool(args[1].kind = "Int"), h)
      [] name = "isFloat" -> Ok(VBool(args[1].kind = "Float"), h)
      [] name = "isString" -> Ok(VBool(args[1].kind = "String"), h)
      [] name = "isList" -> Ok(VBool(args[1].kind = "List"), h)
      [] name = "isAttrs" -> Ok(VBool(args[1].kind = "Attrs"), h)
      [] name = "isFunction" -> Ok(VBool(args[1].kind \in {"Function", "Builtin"}), h)
      [] name = "toString" -> builtinToString(args, h)
      [] name = "length" -> builtinLength(args, h)
      [] name = "head" -> builtinHead(args, h)
      [] name = "tail" -> builtinTail(args, h)
      [] name = "elem" -> builtinElem(args, h)
      [] name = "attrNames" -> builtinAttrNames(args, h)
      [] name = "attrValues" -> builtinAttrValues(args, h)
      [] name = "hasAttr" -> builtinHasAttr(args, h)
      [] name = "getAttr" -> builtinGetAttr(args, h)
      [] name = "add" -> evalAdd(args[1], args[2], h)
      [] name = "sub" -> evalSub(args[1], args[2], h)
      [] name = "mul" -> evalMul(args[1], args[2], h)
      [] name = "div" -> evalDiv(args[1], args[2], h)
      [] name = "derivation" -> builtinDerivation(args, h)

\* The wrapper registerBuiltin stores: the arity check, then the implementation.
registerBuiltin(name, args, h) ==
    IF Len(args) # builtinArity[name]
    THEN Fail(name \o " expects " \o ToString(builtinArity[name]) \o " argument(s), got "
              \o ToString(Len(args)), h)
    ELSE builtinFn(name, args, h)

\* Builtin.Apply
BuiltinApply(b, args, h) == registerBuiltin(b.name, args, h)

(***************************************************************************)
(* Evaluator                                                               *)
(***************************************************************************)
isSimpleExpr(expr) == expr.kind \in {"Int", "Float", "String", "Bool", "Null", "Path"}

\* filepath.IsAbs
IsAbs(path) == Len(path) > 0 /\ SubSeq(path, 1, 1) = "/"

\* The base directory the command-line tool hands to New.
baseDir == "."

\* filepath.Join of a directory and a clean relative path.
Join(dir, path) == IF dir = "." THEN path ELSE dir \o "/" \o path

resolvePath(path) == IF IsAbs(path) THEN path ELSE Join(baseDir, path)

RECURSIVE evalExpr(_, _, _)
RECURSIVE evalListFrom(_, _, _, _, _)
RECURSIVE evalAttrSetFirstPass(_, _, _, _, _)
RECURSIVE evalAttrSetSecondPass(_, _, _, _, _)
RECURSIVE evalAttrSetPlain(_, _, _, _, _)
RECURSIVE setNestedAttr(_, _, _, _, _)
RECURSIVE evalLetFrom(_, _, _, _)
RECURSIVE evalSelectFrom(_, _, _, _, _)

evalIdent(name, env, h) ==
    LET g == EnvGet(h, env, name)
    IN  IF g.ok THEN Ok(g.val, h) ELSE Fail("undefined variable: " \o name, h)

evalListFrom(elems, i, env, h, acc) ==
    IF i > Len(elems) THEN Ok(VList(acc), h)
    ELSE LET r == evalExpr(elems[i], env, h)
         IN  IF ~r.ok THEN r ELSE evalListFrom(elems, i + 1, env, r.h, Append(acc, r.val))

evalList(expr, env, h) == evalListFrom(expr.elems, 1, env, h, <<>>)

\* The walk of setNestedAttr along path[1..len-1] from the set current:
\* [ok, err, h, current].
RECURSIVE NestedWalk(_, _, _, _)
NestedWalk(h, current, path, i) ==
    IF i > Len(path) - 1 THEN [ok |-> TRUE, err |-> "", h |-> h, current |-> current]
    ELSE LET key == path[i]
         IN  IF AttrsHas(h, current, key)
             THEN LET existing == AttrsGet(h, current, key)
                  IN  IF existing.kind = "Attrs" THEN NestedWalk(h, existing.ref, path, i + 1)
                      ELSE [ok |-> FALSE, err |-> "attribute path conflict at " \o key,
                            h |-> h, current |-> current]
             ELSE LET n == NewAttrs(h)
                  IN  NestedWalk(AttrsSet(n.h, current, key, VAttrs(n.ref)), n.ref, path, i + 1)

setNestedAttr(attrs, path, expr, env, h) ==
    IF Len(path) = 0 THEN Fail("empty attribute path", h)
    ELSE LET r == evalExpr(expr, env, h)
         IN  IF ~r.ok THEN r
             ELSE LET w == NestedWalk(r.h, attrs, path, 1)
                  IN  IF ~w.ok THEN Fail(w.err, w.h)
                      ELSE Ok(NilValue, AttrsSet(w.h, w.current, path[Len(path)], r.val))

evalAttrSetFirstPass(bindings, i, attrs, recEnv, h) ==
    IF i > Len(bindings) THEN Ok(NilValue, h)
    ELSE LET binding == bindings[i]
         IN  IF Len(binding.path) = 1 /\ isSimpleExpr(binding.value)
             THEN LET r == evalExpr(binding.value, recEnv, h)
                  IN  IF ~r.ok THEN r
                      ELSE evalAttrSetFirstPass(bindings, i + 1, attrs, recEnv,
                               EnvSet(AttrsSet(r.h, attrs, binding.path[1], r.val),
                                      recEnv, binding.path[1], r.val))
             ELSE evalAttrSetFirstPass(bindings, i + 1, attrs, recEnv, h)

evalAttrSetSecondPass(bindings, i, attrs, recEnv, h) ==
    IF i > Len(bindings) THEN Ok(NilValue, h)
    ELSE LET binding == bindings[i]
         IN  IF Len(binding.path) = 1 /\ ~isSimpleExpr(binding.value)
             THEN LET r == evalExpr(binding.value, recEnv, h)
                  IN  IF ~r.ok THEN r
                      ELSE evalAttrSetSecondPass(bindings, i + 1, attrs, recEnv,
                               AttrsSet(r.h, attrs, binding.path[1], r.val))
             ELSE IF Len(binding.path) > 1
             THEN LET r == setNestedAttr(attrs, binding.path, binding.value, recEnv, h)
                  IN  IF ~r.ok THEN r
                      ELSE evalAttrSetSecondPass(bindings, i + 1, attrs, recEnv, r.h)
             ELSE evalAttrSetSecondPass(bindings, i + 1, attrs, recEnv, h)

evalAttrSetPlain(bindings, i, attrs, evalEnv, h) ==
    IF i > Len(bindings) THEN Ok(NilValue, h)
    ELSE LET binding == bindings[i]
         IN  IF Len(binding.path) = 1
             THEN LET r == evalExpr(binding.value, evalEnv, h)
                  IN  IF ~r.ok THEN r
                      ELSE evalAttrSetPlain(bindings, i + 1, attrs, evalEnv,
                               AttrsSet(r.h, attrs, binding.path[1], r.val))
             ELSE LET r == setNestedAttr(attrs, binding.path, binding.value, evalEnv, h)
                  IN  IF ~r.ok THEN r
                      ELSE evalAttrSetPlain(bindings, i + 1, attrs, evalEnv, r.h)

evalAttrSet(expr, env, h) ==
    LET n == NewAttrs(h)
    IN  IF expr.recursive
        THEN LET x == EnvExtend(n.h, env)
                 p1 == evalAttrSetFirstPass(expr.bindings, 1, n.ref, x.env, x.h)
             IN  IF ~p1.ok THEN p1
                 ELSE LET p2 == evalAttrSetSecondPass(expr.bindings, 1, n.ref, x.env, p1.h)
                      IN  IF ~p2.ok THEN p2 ELSE Ok(VAttrs(n.ref), p2.h)
        ELSE LET r == evalAttrSetPlain(expr.bindings, 1, n.ref, env, n.h)
             IN  IF ~r.ok THEN r ELSE Ok(VAttrs(n.ref), r.h)

\* The short-circuit operators share one shape: evaluate the left operand,
\* require a boolean, answer at once when it equals stop, else the right one.
evalShort(expr, env, h, sym, stop, answer) ==
    LET l == evalExpr(expr.left, env, h)
    IN  IF ~l.ok THEN l
        ELSE IF l.val.kind # "Bool"
        THEN Fail(sym \o " requires boolean operands, got " \o TypeName(l.val), l.h)
        ELSE IF l.val.b = stop THEN Ok(VBool(answer), l.h)
        ELSE LET r == evalExpr(expr.right, env, l.h)
             IN  IF ~r.ok THEN r
                 ELSE IF r.val.kind # "Bool"
                 THEN Fail(sym \o " requires boolean operands, got " \o TypeName(r.val), r.h)
                 ELSE Ok(r.val, r.h)

evalAnd(expr, env, h) == evalShort(expr, env, h, "&&", FALSE, FALSE)
evalOr(expr, env, h) == evalShort(expr, env, h, "||", TRUE, TRUE)
evalImpl(expr, env, h) == evalShort(expr, env, h, "->", FALSE, TRUE)

evalBinary(expr, env, h) ==
    CASE expr.op = "&&" -> evalAnd(expr, env, h)
      [] expr.op = "||" -> evalOr(expr, env, h)
      [] expr.op = "->" -> evalImpl(expr, env, h)
      [] OTHER ->
            LET l == evalExpr(expr.left, env, h)
            IN  IF ~l.ok THEN l
                ELSE LET r == evalExpr(expr.right, env, l.h)
                         left == l.val
                         right == r.val
                     IN  IF ~r.ok THEN r
                         ELSE CASE expr.op = "+" -> evalAdd(left, right, r.h)
                                [] expr.op = "-" -> evalSub(left, right, r.h)
                                [] expr.op = "*" -> evalMul(left, right, r.h)
                                [] expr.op = "/" -> evalDiv(left, right, r.h)
                                [] expr.op = "++" -> evalConcat(left, right, r.h)
                                [] expr.op = "==" -> Ok(VBool(ValueEquals(r.h, left, right)), r.h)
                                [] expr.op = "!=" -> Ok(VBool(~ValueEquals(r.h, left, right)), r.h)
                                [] expr.op = "<" -> evalLess(left, right, r.h)
                                [] expr.op = ">" -> evalGreater(left, right, r.h)
                                [] expr.op = "<=" -> evalLessEq(left, right, r.h)
                                [] expr.op = ">=" -> evalGreaterEq(left, right, r.h)
                                [] expr.op = "//" -> evalUpdate(left, right, r.h)
                                [] OTHER -> Fail("unknown binary operator: " \o expr.op, r.h)

evalUnary(expr, env, h) ==
    LET o == evalExpr(expr.expr, env, h)
        operand == o.val
    IN  IF ~o.ok THEN o
        ELSE CASE expr.op = "!" ->
                    IF operand.kind # "Bool"
                    THEN Fail("! operator requires boolean operand, got " \o TypeName(operand), o.h)
                    ELSE Ok(VBool(~operand.b), o.h)
               [] expr.op = "-" ->
                    (CASE operand.kind = "Int" -> Ok(VInt(-operand.val), o.h)
                       [] operand.kind = "Float" -> Ok(VFloat(-operand.num, operand.den), o.h)
                       [] OTHER -> Fail("- operator requires numeric operand, got "
                                        \o TypeName(operand), o.h))
               [] OTHER -> Fail("unknown unary operator: " \o expr.op, o.h)

evalIf(expr, env, h) ==
    LET c == evalExpr(expr.cond, env, h)
    IN  IF ~c.ok THEN c
        ELSE IF c.val.kind # "Bool"
        THEN Fail("if condition must be boolean, got " \o TypeName(c.val), c.h)
        ELSE IF c.val.b THEN evalExpr(expr.then, env, c.h)
        ELSE evalExpr(expr.else, env, c.h)

\* One turn of evalLet's loop: the binding evaluated in letEnv and stored there.
evalLetBinding(binding, scope, h) ==
    LET r == evalExpr(binding.value, scope, h)
    IN  IF ~r.ok THEN Fail("error in let binding " \o binding.name \o ": " \o r.err, r.h)
        ELSE Ok(r.val, EnvSet(r.h, scope, binding.name, r.val))

evalLetFrom(expr, i, scope, h) ==
    IF i > Len(expr.bindings) THEN evalExpr(expr.body, scope, h)
    ELSE LET r == evalLetBinding(expr.bindings[i], scope, h)
         IN  IF ~r.ok THEN r ELSE evalLetFrom(expr, i + 1, scope, r.h)

evalLet(expr, env, h) ==
    LET x == EnvExtend(h, env)
    IN  evalLetFrom(expr, 1, x.env, x.h)

RECURSIVE SetAll(_, _, _, _, _)
SetAll(h, env, attrs, keys, i) ==
    IF i > Len(keys) THEN h
    ELSE SetAll(EnvSet(h, env, keys[i], AttrsGet(h, attrs, keys[i])), env, attrs, keys, i + 1)

evalWith(expr, env, h) ==
    LET s == evalExpr(expr.expr, env, h)
    IN  IF ~s.ok THEN s
        ELSE IF s.val.kind # "Attrs"
        THEN Fail("with expression requires attribute set, got " \o TypeName(s.val), s.h)
        ELSE LET x == EnvExtend(s.h, env)
             IN  evalExpr(expr.body, x.env,
                          SetAll(x.h, x.env, s.val.ref, AttrsKeys(x.h, s.val.ref), 1))

evalAssert(expr, env, h) ==
    LET c == evalExpr(expr.cond, env, h)
    IN  IF ~c.ok THEN c
        ELSE IF c.val.kind # "Bool"
        THEN Fail("assert condition must be boolean, got " \o TypeName(c.val), c.h)
        ELSE IF ~c.val.b THEN Fail("assertion failed", c.h)
        ELSE evalExpr(expr.body, env, c.h)

evalApply(expr, env, h) ==
    LET f == evalExpr(expr.func, env, h)
    IN  IF ~f.ok THEN f
        ELSE LET a == evalExpr(expr.arg, env, f.h)
                 fn == f.val
             IN  IF ~a.ok THEN a
                 ELSE CASE fn.kind = "Function" ->
                             LET x == EnvExtend(a.h, fn.env)
                                 h1 == EnvSet(x.h, x.env, fn.param, a.val)
                             IN  IF fn.body = Nil THEN Fail("invalid function body", h1)
                                 ELSE evalExpr(fn.body, x.env, h1)
                        [] fn.kind = "Builtin" -> BuiltinApply(fn, <<a.val>>, a.h)
                        [] OTHER -> Fail("cannot apply non-function value of type "
                                         \o TypeName(fn), a.h)

evalSelectFrom(expr, env, h, current, i) ==
    IF i > Len(expr.path) THEN Fail("unexpected end of attribute path", h)
    ELSE LET key == expr.path[i]
         IN  IF current.kind # "Attrs"
             THEN IF expr.default # Nil THEN evalExpr(expr.default, env, h)
                  ELSE Fail("cannot select attribute '" \o key \o "' from "
                            \o TypeName(current), h)
             ELSE IF ~AttrsHas(h, current.ref, key)
             THEN IF expr.default # Nil THEN evalExpr(expr.default, env, h)
                  ELSE Fail("attribute '" \o key \o "' not found", h)
             ELSE IF i = Len(expr.path) THEN Ok(AttrsGet(h, current.ref, key), h)
             ELSE evalSelectFrom(expr, env, h, AttrsGet(h, current.ref, key), i + 1)

evalSelect(expr, env, h) ==
    LET v == evalExpr(expr.expr, env, h)
    IN  IF ~v.ok THEN v ELSE evalSelectFrom(expr, env, v.h, v.val, 1)

RECURSIVE HasPath(_, _, _, _)
HasPath(h, current, path, i) ==
    IF i > Len(path) THEN TRUE
    ELSE IF current.kind # "Attrs" THEN FALSE
    ELSE IF ~AttrsHas(h, current.ref, path[i]) THEN FALSE
    ELSE IF i = Len(path) THEN TRUE
    ELSE HasPath(h, AttrsGet(h, current.ref, path[i]), path, i + 1)

evalHasAttr(expr, env, h) ==
    LET v == evalExpr(expr.expr, env, h)
    IN  IF ~v.ok THEN v ELSE Ok(VBool(HasPath(v.h, v.val, expr.path, 1)), v.h)

evalExpr(expr, env, h) ==
    CASE expr.kind = "Int" -> Ok(VInt(expr.val), h)
      [] expr.kind = "Float" -> Ok(FloatOfText(expr.text), h)
      [] expr.kind = "String" -> Ok(VString(expr.str), h)
      [] expr.kind = "Bool" -> Ok(VBool(expr.b), h)
      [] expr.kind = "Null" -> Ok(VNull, h)
      [] expr.kind = "Path" -> Ok(VPath(resolvePath(expr.str)), h)
      [] expr.kind = "Ident" -> evalIdent(expr.name, env, h)
      [] expr.kind = "List" -> evalList(expr, env, h)
      [] expr.kind = "AttrSet" -> evalAttrSet(expr, env, h)
      [] expr.kind = "Binary" -> evalBinary(expr, env, h)
      [] expr.kind = "Unary" -> evalUnary(expr, env, h)
      [] expr.kind = "If" -> evalIf(expr, env, h)
      [] expr.kind = "Let" -> evalLet(expr, env, h)
      [] expr.kind = "With" -> evalWith(expr, env, h)
      [] expr.kind = "Assert" -> evalAssert(expr, env, h)
      [] expr.kind = "Function" -> Ok(VFunction(expr.param, expr.body, env), h)
      [] expr.kind = "Apply" -> evalApply(expr, env, h)
      [] expr.kind = "Select" -> evalSelect(expr, env, h)
      [] expr.kind = "HasAttr" -> evalHasAttr(expr, env, h)
      [] OTHER -> Fail("unknown expression type: <nil>", h)

\* The fresh environment Eval builds: one frame holding every builtin.
GlobalHeap ==
    LET n == NewEnv(EmptyHeap)
    IN  [n.h EXCEPT !.envs[n.env].bindings = registerBuiltins]

GlobalEnv == 1

Eval(expr) == evalExpr(expr, GlobalEnv, GlobalHeap)

\* Value.String, the text the command-line tool prints.
RECURSIVE ValueString(_, _)
ValueString(h, v) ==
    CASE v.kind = "Null" -> "null"
      [] v.kind = "Bool" -> IF v.b THEN "true" ELSE "false"
      [] v.kind = "Int" -> ToString(v.val)
      [] v.kind = "Float" -> FormatFloat(v)
      [] v.kind = "String" -> "\"" \o v.str \o "\""
      [] v.kind = "Path" -> v.str
      [] v.kind = "List" ->
            "[ " \o JoinStrings([i \in 1..Len(v.elems) |-> ValueString(h, v.elems[i])], " ", 1)
            \o " ]"
      [] v.kind = "Attrs" ->
            IF AttrsLen(h, v.ref) = 0 THEN "{ }"
            ELSE LET keys == AttrsKeys(h, v.ref)
                 IN  "{ " \o JoinStrings([i \in 1..Len(keys) |->
                                keys[i] \o " = " \o ValueString(h, AttrsGet(h, v.ref, keys[i]))
                                \o ";"], " ", 1) \o " }"
      [] v.kind = "Function" -> "<LAMBDA " \o v.param \o ">"
      [] v.kind = "Builtin" -> "<BUILTIN " \o v.name \o ">"

(***************************************************************************)
(* The interpreter run on one source text: lexing token by token, parsing, *)
(* evaluation.  The bindings of a top-level let are evaluated one step at  *)
(* a time, so the heap between two bindings is a state.                    *)
(***************************************************************************)
\* The binary operators of the language, as written in source text.
BinaryOps == {"+", "-", "*", "/", "++", "==", "!=", "<", ">", "<=", ">=", "&&", "||", "->", "//"}

\* a OP1 b OP2 c
Chain(op1, op2) == "a " \o op1 \o " b " \o op2 \o " c"

\* x OP y, on identifiers and on literals
Infix(op) == "x " \o op \o " y"
InfixLit(op) == "1 " \o op \o " 2"

\* f x OP y
CallInfix(op) == "f x " \o op \o " y"

OperatorSources ==
    {Chain(o1, o2) : o1 \in BinaryOps, o2 \in BinaryOps}
    \cup {Infix(o) : o \in BinaryOps} \cup {InfixLit(o) : o \in BinaryOps}
    \cup {CallInfix(o) : o \in BinaryOps} \cup {"f x y", "f x y z"}

RecSources ==
    {"rec { x = 1; y = x + 1; }", "{ rec x = 1; y = x + 1; }", "{ x = 1; y = 2; }"}

BuiltinSources ==
    {"add 1 2", "sub 5 3", "mul 2 3", "div 6 3", "elem 1 [1]",
     "hasAttr \"a\" { a = 1; }", "getAttr \"a\" { a = 1; }",
     "isInt 1", "length [1 2]", "add 1", "(a: b: a + b) 1 2"}

\* let x = E1; y = E2; in B
LetSource(e1, e2, b) == "let x = " \o e1 \o "; y = " \o e2 \o "; in " \o b

LetE1 == {"1", "a: x", "a: a", "{ k = 1; }"}
LetE2 == {"2", "x", "b: y"}
LetBodies == {"x", "y", "[x y]", "isFunction (x 1)", "isFunction (y 1)"}

LetSources == {LetSource(e1, e2, b) : e1 \in LetE1, e2 \in LetE2, b \in LetBodies}

NestedPathSources ==
    {"let s = { }; t = { a = s; a.b = 1; }; in s",
     "let s = { c = 1; }; t = { a = s; a.b = 1; }; in [s t]",
     "let s = { n = { }; }; t = { n = s.n; n.k = 1; }; in s.n",
     "let s = { c = 1; }; t = { a.b = 1; a.c = 2; }; in t",
     "let s = { c = 1; }; t = s // { b = 2; }; in s",
     "let s = [1 2]; t = s ++ [3]; in s",
     "{ a.b = 1; a.c = 2; }",
     "let s = 1; t = { a = s; a.b = 1; }; in t"}

\* Texts that are not expressions: a construct left open, a token out of
\* place, a string that ends in a backslash.
MalformedSources ==
    {"", "[1", "(1", "1 +", "if 1 then 2", "{ a }", "{ a = 1", "{ 1 }", "{ a = ; }",
     "let x = 1 in x", "[1, , 2]", "a.", "\"a\\", "\"a", "9999999999", "{ inherit x; }"}

\* Texts with a character that is no token of the language.
IllegalSources == {"1 &", "& 1", "1 | 2", "1 @ 2", "[1 & 2]", "x & y"}

\* The expressions e the postfix forms are applied to.
PostfixTargets == {"e", "{ a = 1; }", "(f x)"}

PostfixSources ==
    {t \o " ? a.b" : t \in PostfixTargets} \cup {t \o ".a or d" : t \in PostfixTargets}
    \cup {"x or d", "1 or d", "e ? a", "e.a.b or 1"}

\* Texts with a value in the place of a condition.
TruthSources ==
    {"!5", "!!5", "if (1) then 10 else 20", "!true", "!!true",
     "if (true) then 10 else 20", "if (false) then 10 else 20"}

\* List literals with commas and with operators inside the elements.
ListSources == {"[1, 2 * 2, 3 + 3]", "[1, 2]", "[2 * 2]", "[1, (2 * 2), (3 + 3)]"}

\* Recursive sets whose bindings build on each other, in the form the
\* parser takes as recursive and in the form with rec before the brace.
RecChainSources ==
    {"{ rec x = 1; y = x + 1; z = y + 1; }", "{ rec z = y + 1; y = x + 1; x = 1; }",
     "{ rec y = x + 1; x = 1; }", "{ rec x = 1; y = x + 1; z = x + 2; }",
     "rec { x = 1; y = x + 1; z = y + 1; }"}

\* Lets whose bindings mention a binding of the same let that is not
\* earlier: directly, or inside a function called in the body.
LateBindingSources ==
    {"let x = a: y; y = 2; in x 1", "let x = y; y = 2; in x",
     "let f = a: f; in isFunction (f 1)", "let x = 1; y = x; in y",
     "let x = a: a; y = 2; in x y"}

Sources ==
    OperatorSources \cup RecSources \cup BuiltinSources \cup LetSources
    \cup NestedPathSources \cup MalformedSources \cup IllegalSources \cup PostfixSources
    \cup TruthSources \cup ListSources \cup RecChainSources
    \cup LateBindingSources

NoResult == [status |-> "none", val |-> NilValue, err |-> "", out |-> ""]

\* What the command-line tool ends with: the printed value or the error.
EvalResult(r) ==
    IF r.ok THEN [status |-> "ok", val |-> r.val, err |-> "", out |-> ValueString(r.h, r.val)]
    ELSE [status |-> "eval error", val |-> NilValue, err |-> r.err, out |-> ""]

ParseFailure(errs) ==
    [status |-> "parse error", val |-> NilValue, err |-> errs[1].Message, out |-> ""]

NoOp == [op |-> "none", ok |-> FALSE, err |-> "", val |-> NilValue, h |-> EmptyHeap]

OpsIdle == /\ opA = NilValue /\ opB = NilValue /\ opHeap = EmptyHeap /\ opRes = NoOp

Init ==
    /\ input \in Sources
    /\ lx = LexerNew(input)
    /\ toks = <<>>
    /\ pc = "lex"
    /\ ast = Nil
    /\ errors = <<>>
    /\ heap = EmptyHeap
    /\ letEnv = 0
    /\ letIdx = 0
    /\ result = NoResult
    /\ OpsIdle
    /\ base = input

\* The parser asks the lexer for the next token.
Lexed(r) ==
    /\ lx' = r.l
    /\ toks' = Append(toks, r.tok)
    /\ pc' = CASE r.tok.Type = "EOF" /\ AtEnd(r.l) -> "parse"
               [] r.tok.Type = "PANIC" -> "panic"
               [] OTHER -> "lex"

LexStep ==
    /\ pc = "lex"
    /\ Lexed(NextToken(lx))
    /\ UNCHANGED <<input, ast, errors, heap, letEnv, letIdx, result, opA, opB, opHeap, opRes, base>>

\* Parser.Parse, and the tool's exit on a parse error.
Parsed(r) ==
    /\ ast' = r.tree
    /\ errors' = r.errors
    /\ pc' = IF r.hangs THEN "hang" ELSE IF Len(r.errors) > 0 THEN "done" ELSE "eval"
    /\ result' = IF ~r.hangs /\ Len(r.errors) > 0 THEN ParseFailure(r.errors) ELSE result

ParseStep ==
    /\ pc = "parse"
    /\ Parsed(Parse(toks))
    /\ UNCHANGED <<input, lx, toks, heap, letEnv, letIdx, opA, opB, opHeap, opRes, base>>

\* The end of an evaluation r: the value printed or the error reported.
Evaluated(r) ==
    /\ heap' = r.h
    /\ result' = EvalResult(r)
    /\ pc' = "done"

\* Evaluator.Eval on an expression other than a let, and the printing.
EvalStep ==
    /\ pc = "eval"
    /\ ast.kind # "Let"
    /\ Evaluated(Eval(ast))
    /\ UNCHANGED <<input, lx, toks, ast, errors, letEnv, letIdx, opA, opB, opHeap, opRes, base>>

\* Evaluator.Eval reaching evalLet: the fresh environment and its extension.
LetEnter ==
    /\ pc = "eval"
    /\ ast.kind = "Let"
    /\ LET x == EnvExtend(GlobalHeap, GlobalEnv)
       IN  /\ heap' = x.h
           /\ letEnv' = x.env
    /\ letIdx' = 1
    /\ pc' = "let"
    /\ UNCHANGED <<input, lx, toks, ast, errors, result, opA, opB, opHeap, opRes, base>>

Bound(r) ==
    IF r.ok
    THEN /\ heap' = r.h
         /\ letIdx' = letIdx + 1
         /\ UNCHANGED <<pc, result>>
    ELSE /\ Evaluated(r)
         /\ UNCHANGED letIdx

\* One turn of evalLet's loop.
LetBind ==
    /\ pc = "let"
    /\ letIdx <= Len(ast.bindings)
    /\ Bound(evalLetBinding(ast.bindings[letIdx], letEnv, heap))
    /\ UNCHANGED <<input, lx, toks, ast, errors, letEnv, opA, opB, opHeap, opRes, base>>

\* The body of the let in letEnv, and the printing.
LetBody ==
    /\ pc = "let"
    /\ letIdx > Len(ast.bindings)
    /\ Evaluated(evalExpr(ast.body, letEnv, heap))
    /\ UNCHANGED <<input, lx, toks, ast, errors, letEnv, letIdx, opA, opB, opHeap, opRes, base>>

Next == LexStep \/ ParseStep \/ EvalStep \/ LetEnter \/ LetBind \/ LetBody

Spec == Init /\ [][Next]_vars

(***************************************************************************)
(* The operators on values applied to two values A and B drawn from a      *)
(* bounded universe: attribute sets over Keys with integer values, lists,  *)
(* scalars, a function, a builtin.                                         *)
(***************************************************************************)
MaxVal == 2

Keys == {"a", "b"}

AttrVals == {VInt(n) : n \in 1..MaxVal}

\* Every map from a subset of Keys to AttrVals.
AttrMaps == UNION {[K -> AttrVals] : K \in SUBSET Keys}

\* a: a, closed in the global environment.
IdentityFn == VFunction("a", IdentExpr("a"), GlobalEnv)

\* The heap the operands live in: two attribute sets drawn from AttrMaps,
\* a set holding a function and a set holding the first set.
OpsHeap(mA, mB) ==
    [envs |-> GlobalHeap.envs,
     attrs |-> <<mA, mB, [k \in {"f"} |-> IdentityFn], [k \in {"n"} |-> VAttrs(1)]>>]

OpValues ==
    {VAttrs(1), VAttrs(2), VAttrs(3), VAttrs(4), VNull, VBool(TRUE), VInt(1), VFloat(1, 2),
     VString("a"), VPath("/p"), VList(<<>>), VList(<<VInt(1), VAttrs(1)>>),
     VList(<<IdentityFn>>), IdentityFn, VBuiltin("elem"),
     VInt(0), VInt(2), VInt(-3), VFloat(0, 1), VFloat(-3, 2)}

InitOps ==
    /\ input = ""
    /\ lx = LexerNew("")
    /\ toks = <<>>
    /\ pc = "ops"
    /\ ast = Nil
    /\ errors = <<>>
    /\ heap = EmptyHeap
    /\ letEnv = 0
    /\ letIdx = 0
    /\ result = NoResult
    /\ \E mA \in AttrMaps, mB \in AttrMaps : opHeap = OpsHeap(mA, mB)
    /\ opA \in OpValues
    /\ opB \in OpValues
    /\ opRes = NoOp
    /\ base = ""

OpResult(op, r) == [op |-> op, ok |-> r.ok, err |-> r.err, val |-> r.val, h |-> r.h]

\* A // B
DoUpdate ==
    /\ pc = "ops"
    /\ opRes.op = "none"
    /\ opRes' = OpResult("update", evalUpdate(opA, opB, opHeap))
    /\ UNCHANGED <<input, lx, toks, pc, ast, errors, heap, letEnv, letIdx, result,
                   opA, opB, opHeap, base>>

\* elem A (B ++ [A]): the concatenation, then the builtin called with both
\* arguments.
DoElem ==
    /\ pc = "ops"
    /\ opRes.op = "none"
    /\ LET c == evalConcat(opB, VList(<<opA>>), opHeap)
       IN  opRes' = OpResult("elem", IF ~c.ok THEN c
                                     ELSE BuiltinApply(VBuiltin("elem"), <<opA, c.val>>, c.h))
    /\ UNCHANGED <<input, lx, toks, pc, ast, errors, heap, letEnv, letIdx, result,
                   opA, opB, opHeap, base>>

\* A / B
DoDiv ==
    /\ pc = "ops"
    /\ opRes.op = "none"
    /\ opRes' = OpResult("div", evalDiv(opA, opB, opHeap))
    /\ UNCHANGED <<input, lx, toks, pc, ast, errors, heap, letEnv, letIdx, result,
                   opA, opB, opHeap, base>>

RelationalOps == {"<", ">", "<=", ">="}

Relational(op, left, right, h) ==
    CASE op = "<" -> evalLess(left, right, h)
      [] op = ">" -> evalGreater(left, right, h)
      [] op = "<=" -> evalLessEq(left, right, h)
      [] op = ">=" -> evalGreaterEq(left, right, h)

\* A < B, A > B, A <= B, A >= B
DoCompare ==
    /\ pc = "ops"
    /\ opRes.op = "none"
    /\ \E op \in RelationalOps : opRes' = OpResult(op, Relational(op, opA, opB, opHeap))
    /\ UNCHANGED <<input, lx, toks, pc, ast, errors, heap, letEnv, letIdx, result,
                   opA, opB, opHeap, base>>

NextOps == DoUpdate \/ DoElem \/ DoDiv \/ DoCompare

SpecOps == InitOps /\ [][NextOps]_vars

(***************************************************************************)
(* The lexer alone: NextToken called again and again on a text, also after *)
(* the end of the input.  The text is a base text, or a base text with a   *)
(* filler (whitespace or a comment) put between two of its tokens.         *)
(***************************************************************************)
LexBases ==
    {"/bin/sh", "x /bin/sh", "foo-bar", "if-x_1 then", "a\nb", "a\n\n  b\tc", "let x = 5; in x",
     "1.5 + x", "\"s\" ++ [a]", "a /* c */ b", "x # c\n y", "a" \o ZeroByte \o "b",
     "a.b or 2", "x==y", "f (a)", ""}

Fillers == {" ", "\t", "\r", "\n", "# c\n", "/* c */", "/* a /* b */", "/**/"}

\* The byte offsets [start, end) of the tokens NextToken returns on a text,
\* the EOF at the end included.
RECURSIVE TokenSpans(_, _)
\* After the call r of NextToken on a lexer whose next token starts at start.
SpansAfter(acc, r, start) ==
    IF r.tok.Type = "PANIC" \/ (r.tok.Type = "EOF" /\ AtEnd(r.l))
    THEN Append(acc, [start |-> start, end |-> r.l.position])
    ELSE TokenSpans(r.l, Append(acc, [start |-> start, end |-> r.l.position]))

TokenSpans(l, acc) == SpansAfter(acc, NextToken(l), skipIgnored(l).position)

\* The offsets between two adjacent tokens: where the earlier one ends and
\* where the later one starts.
BoundariesOf(spans) ==
    {spans[i].end : i \in 1..(Len(spans) - 1)} \cup {spans[i].start : i \in 2..Len(spans)}

Boundaries(src) == BoundariesOf(TokenSpans(LexerNew(src), <<>>))

Insert(src, k, filler) == SubSeq(src, 1, k) \o filler \o SubSeq(src, k + 1, Len(src))

Insertions(src) == {Insert(src, k, f) : k \in Boundaries(src), f \in Fillers}

\* Calls of NextToken after the one that reached the end of the input.
MaxExtraCalls == 2

InitLex ==
    /\ base \in LexBases
    /\ input \in {base} \cup Insertions(base)
    /\ lx = LexerNew(input)
    /\ toks = <<>>
    /\ pc = "lex"
    /\ ast = Nil
    /\ errors = <<>>
    /\ heap = EmptyHeap
    /\ letEnv = 0
    /\ letIdx = 0
    /\ result = NoResult
    /\ OpsIdle

PastEnd(r) ==
    /\ lx' = r.l
    /\ toks' = Append(toks, r.tok)

\* One more call of NextToken on a lexer that has reached the end.
LexPastEnd ==
    /\ pc = "parse"
    /\ lx.position <= Len(input) + MaxExtraCalls
    /\ PastEnd(NextToken(lx))
    /\ UNCHANGED <<input, pc, ast, errors, heap, letEnv, letIdx, result,
                   opA, opB, opHeap, opRes, base>>

NextLex == LexStep \/ LexPastEnd

SpecLex == InitLex /\ [][NextLex]_vars

(***************************************************************************)
(* Printing a value and reading the text back: the printed form of a value *)
(* without functions is the source text of a run of the interpreter.       *)
(***************************************************************************)
\* The heap the printed values live in: an empty set, a set of an integer
\* and a list, a set holding a set.
RoundHeap ==
    [envs |-> GlobalHeap.envs,
     attrs |-> <<EmptyMap,
                 [k \in {"a", "b"} |-> IF k = "a" THEN VInt(-1)
                                       ELSE VList(<<VInt(1), VString("a")>>)],
                 [k \in {"n", "t"} |-> IF k = "n" THEN VAttrs(2) ELSE VBool(TRUE)]>>]

RoundAtoms ==
    {VNull, VBool(TRUE), VBool(FALSE), VString(""), VString("a")}
    \cup {VInt(n) : n \in (0 - MaxVal)..MaxVal}

RoundElems == {VInt(1), VInt(-1), VNull, VString("a"), VList(<<VInt(-1)>>), VAttrs(2)}

RoundValues ==
    RoundAtoms
    \cup {VList(<<>>)}
    \cup {VList(<<x>>) : x \in RoundElems}
    \cup {VList(<<x, y>>) : x \in RoundElems, y \in RoundElems}
    \cup {VAttrs(1), VAttrs(2), VAttrs(3)}

InitRound ==
    /\ opA \in RoundValues
    /\ opHeap = RoundHeap
    /\ opB = NilValue
    /\ opRes = NoOp
    /\ input = ValueString(opHeap, opA)
    /\ base = input
    /\ lx = LexerNew(input)
    /\ toks = <<>>
    /\ pc = "lex"
    /\ ast = Nil
    /\ errors = <<>>
    /\ heap = EmptyHeap
    /\ letEnv = 0
    /\ letIdx = 0
    /\ result = NoResult

NextRound == LexStep \/ ParseStep \/ EvalStep

SpecRound == InitRound /\ [][NextRound]_vars

(***************************************************************************)
(* Properties of the parser                                                *)
(***************************************************************************)
\* Parse has returned: the tree is in ast, the errors in errors.
AfterParse == pc \in {"eval", "let", "done"}

\* The level of a binary operator in the documented precedence table, from
\* the loosest (->) to the tightest (* /).
Level(op) ==
    CASE op = "->" -> 1
      [] op = "||" -> 2
      [] op = "&&" -> 3
      [] op \in {"==", "!="} -> 4
      [] op \in {"<", ">", "<=", ">="} -> 5
      [] op = "//" -> 6
      [] op = "++" -> 7
      [] op \in {"+", "-"} -> 8
      [] op \in {"*", "/"} -> 9

LeftNested(op1, op2) ==
    BinaryExpr(BinaryExpr(IdentExpr("a"), op1, IdentExpr("b")), op2, IdentExpr("c"))

RightNested(op1, op2) ==
    BinaryExpr(IdentExpr("a"), op1, BinaryExpr(IdentExpr("b"), op2, IdentExpr("c")))

\* C1: for every two binary operators op_hi, op_lo with op_hi on a strictly
\* higher level of the precedence table, `a op_hi b op_lo c` parses without
\* error to Binary{Binary{a, op_hi, b}, op_lo, c} and `a op_lo b op_hi c` to
\* Binary{a, op_lo, Binary{b, op_hi, c}}, for every op_lo including `-`.
C1_Precedence ==
    \A hi \in BinaryOps, lo \in BinaryOps :
        Level(hi) > Level(lo) =>
            /\ (AfterParse /\ input = Chain(hi, lo)) =>
                    (errors = <<>> /\ ast = LeftNested(hi, lo))
            /\ (AfterParse /\ input = Chain(lo, hi)) =>
                    (errors = <<>> /\ ast = RightNested(lo, hi))

\* C2: every binary operator other than -> is left-associative, `a OP b OP c`
\* parsing to Binary{Binary{a, OP, b}, OP, c} (`a - b - c` included), and ->
\* is right-associative, `a -> b -> c` parsing to Binary{a, ->, Binary{b, ->, c}}.
C2_Associativity ==
    \A op \in BinaryOps :
        (AfterParse /\ input = Chain(op, op)) =>
            /\ errors = <<>>
            /\ ast = IF op = "->" THEN RightNested(op, op) ELSE LeftNested(op, op)

\* C3: for every binary operator OP, `x OP y` on identifiers or literals
\* parses, with no parse error, to the Binary node of x, OP and y.
C3_EveryOperatorParses ==
    \A op \in BinaryOps :
        /\ (AfterParse /\ input = Infix(op)) =>
                (errors = <<>> /\ ast = BinaryExpr(IdentExpr("x"), op, IdentExpr("y")))
        /\ (AfterParse /\ input = InfixLit(op)) =>
                (errors = <<>> /\ ast = BinaryExpr(IntExpr(1), op, IntExpr(2)))

\* C4: application by juxtaposition is left-associative and binds tighter
\* than every binary operator: `f x y` parses to Apply{Apply{f, x}, y} and
\* `f x OP y` to Binary{Apply{f, x}, OP, y}, for every OP including `-`.
C4_ApplicationBindsTightest ==
    /\ (AfterParse /\ input = "f x y") =>
            /\ errors = <<>>
            /\ ast = ApplyExpr(ApplyExpr(IdentExpr("f"), IdentExpr("x")), IdentExpr("y"))
    /\ \A op \in BinaryOps :
            (AfterParse /\ input = CallInfix(op)) =>
                /\ errors = <<>>
                /\ ast = BinaryExpr(ApplyExpr(IdentExpr("f"), IdentExpr("x")), op,
                                    IdentExpr("y"))

\* C5: the source `rec { x = 1; y = x + 1; }` parses without error to an
\* attribute-set node with recursive = true, and its evaluation prints
\* `{ x = 1; y = 2; }`.
C5_RecBeforeBrace ==
    (pc = "done" /\ input = "rec { x = 1; y = x + 1; }") =>
        /\ errors = <<>>
        /\ ast.kind = "AttrSet"
        /\ ast.recursive
        /\ result.status = "ok"
        /\ result.out = "{ x = 1; y = 2; }"

(***************************************************************************)
(* Properties of the evaluator                                             *)
(***************************************************************************)
Arity2Builtins == {n \in DOMAIN builtinArity : builtinArity[n] = 2}

\* builtin a b, written by juxtaposition
IsArity2Call(e) ==
    /\ e.kind = "Apply"
    /\ e.func.kind = "Apply"
    /\ e.func.func.kind = "Ident"
    /\ e.func.func.name \in Arity2Builtins

\* What the implementation of the builtin returns for the two evaluated
\* arguments of the call e.
ImplementationOn(e, a, b) ==
    IF ~a.ok THEN a ELSE IF ~b.ok THEN b
    ELSE builtinFn(e.func.func.name, <<a.val, b.val>>, b.h)

ImplementationResult(e, a) ==
    ImplementationOn(e, a, IF a.ok THEN evalExpr(e.arg, GlobalEnv, a.h) ELSE a)

\* C6: a built-in of arity 2 applied to two arguments by juxtaposition,
\* Apply{Apply{builtin, a}, b}, returns what its implementation returns for
\* both arguments (`add 1 2` prints 3) and no arity error.
C6_Arity2ByJuxtaposition ==
    (pc = "done" /\ IsArity2Call(ast)) =>
        /\ result = EvalResult(ImplementationResult(ast,
                                   evalExpr(ast.func.arg, GlobalEnv, GlobalHeap)))
        /\ (input = "add 1 2" => result.out = "3")

RECURSIVE Mentions(_, _)
\* The identifier n occurs in the expression e.
Mentions(e, n) ==
    CASE e.kind = "Ident" -> e.name = n
      [] e.kind = "List" -> \E i \in 1..Len(e.elems) : Mentions(e.elems[i], n)
      [] e.kind = "AttrSet" -> \E i \in 1..Len(e.bindings) : Mentions(e.bindings[i].value, n)
      [] e.kind = "Binary" -> Mentions(e.left, n) \/ Mentions(e.right, n)
      [] e.kind = "Unary" -> Mentions(e.expr, n)
      [] e.kind = "If" -> Mentions(e.cond, n) \/ Mentions(e.then, n) \/ Mentions(e.else, n)
      [] e.kind = "Let" ->
            \/ \E i \in 1..Len(e.bindings) : Mentions(e.bindings[i].value, n)
            \/ Mentions(e.body, n)
      [] e.kind = "With" -> Mentions(e.expr, n) \/ Mentions(e.body, n)
      [] e.kind = "Assert" -> Mentions(e.cond, n) \/ Mentions(e.body, n)
      [] e.kind = "Function" -> Mentions(e.body, n)
      [] e.kind = "Apply" -> Mentions(e.func, n) \/ Mentions(e.arg, n)
      [] e.kind = "Select" -> Mentions(e.expr, n) \/ Mentions(e.default, n)
      [] e.kind = "HasAttr" -> Mentions(e.expr, n)
      [] OTHER -> FALSE

\* let x = E1; y = E2; in B with E1 not mentioning y
IsLetOfTwo(e) ==
    /\ e.kind = "Let"
    /\ Len(e.bindings) = 2
    /\ e.bindings[1].name # e.bindings[2].name
    /\ ~Mentions(e.bindings[1].value, e.bindings[2].name)

\* (x: (y: B) E2) E1
LambdaForm(e) ==
    ApplyExpr(FunctionExpr(e.bindings[1].name,
                           ApplyExpr(FunctionExpr(e.bindings[2].name, e.body),
                                     e.bindings[2].value)),
              e.bindings[1].value)

RECURSIVE StructEq(_, _, _, _)
\* Structural equality of a value v1 in heap h1 and a value v2 in heap h2:
\* the same kind and the same parts; a function by parameter and body.
StructEq(h1, v1, h2, v2) ==
    CASE v1.kind # v2.kind -> FALSE
      [] v1.kind = "List" ->
            /\ Len(v1.elems) = Len(v2.elems)
            /\ \A i \in 1..Len(v1.elems) : StructEq(h1, v1.elems[i], h2, v2.elems[i])
      [] v1.kind = "Attrs" ->
            /\ DOMAIN h1.attrs[v1.ref] = DOMAIN h2.attrs[v2.ref]
            /\ \A k \in DOMAIN h1.attrs[v1.ref] :
                  StructEq(h1, h1.attrs[v1.ref][k], h2, h2.attrs[v2.ref][k])
      [] v1.kind = "Function" -> v1.param = v2.param /\ v1.body = v2.body
      [] OTHER -> v1 = v2

\* The run ended as the evaluation r did: both failed, or both gave
\* structurally equal values.
SameOutcome(r) ==
    /\ (result.status = "ok") = r.ok
    /\ r.ok => StructEq(heap, result.val, r.h, r.val)

\* C7: for a let of two bindings x = E1, y = E2 with body B, E1 not
\* mentioning y, the let and (x: (y: B) E2) E1 evaluated in the same
\* environment have the same outcome, also when E1 is a function whose body
\* mentions x.
C7_LetIsLambdaApplication ==
    (pc = "done" /\ IsLetOfTwo(ast)) => SameOutcome(Eval(LambdaForm(ast)))

\* The attribute sets of heap h that an environment binds or that another
\* attribute set holds.
HeldAttrs(h) ==
    {r \in 1..Len(h.attrs) :
        \/ \E f \in 1..Len(h.envs) : \E n \in DOMAIN h.envs[f].bindings :
                h.envs[f].bindings[n] = VAttrs(r)
        \/ \E q \in 1..Len(h.attrs) : \E k \in DOMAIN h.attrs[q] :
                h.attrs[q][k] = VAttrs(r)}

\* C8: values are immutable after construction: no evaluation step changes
\* the keys or the values of an attribute set that is already bound in an
\* environment or stored in another value; a binding with a nested path
\* (a.b = v) adds no key to a set that existed before its literal was
\* evaluated.
C8_ValuesImmutable ==
    [][\A r \in HeldAttrs(heap) : heap'.attrs[r] = heap.attrs[r]]_vars

(***************************************************************************)
(* Properties of the operators on values                                   *)
(***************************************************************************)
RECURSIVE Comparable(_, _)
\* The value v holds no user-defined function, at any depth.
Comparable(h, v) ==
    CASE v.kind = "Function" -> FALSE
      [] v.kind = "List" -> \A i \in 1..Len(v.elems) : Comparable(h, v.elems[i])
      [] v.kind = "Attrs" -> \A k \in DOMAIN h.attrs[v.ref] : Comparable(h, h.attrs[v.ref][k])
      [] OTHER -> TRUE

TypeErrorPrefix == "// operator requires two attribute sets, got "

\* C10: for two attribute sets A and B the update returns a new set whose
\* keys are keys(A) \cup keys(B), each key of B with B's value and each key
\* only in A with A's value, and leaves A and B unchanged; an operand that
\* is not a set makes it fail with a type error.
C10_Update ==
    opRes.op = "update" =>
        IF opA.kind = "Attrs" /\ opB.kind = "Attrs"
        THEN /\ opRes.ok
             /\ opRes.val.kind = "Attrs"
             /\ opRes.val.ref \notin 1..Len(opHeap.attrs)
             /\ DOMAIN opRes.h.attrs[opRes.val.ref]
                    = DOMAIN opHeap.attrs[opA.ref] \cup DOMAIN opHeap.attrs[opB.ref]
             /\ \A k \in DOMAIN opHeap.attrs[opB.ref] :
                    opRes.h.attrs[opRes.val.ref][k] = opHeap.attrs[opB.ref][k]
             /\ \A k \in DOMAIN opHeap.attrs[opA.ref] \ DOMAIN opHeap.attrs[opB.ref] :
                    opRes.h.attrs[opRes.val.ref][k] = opHeap.attrs[opA.ref][k]
             /\ \A r \in 1..Len(opHeap.attrs) : opRes.h.attrs[r] = opHeap.attrs[r]
             /\ opRes.h.envs = opHeap.envs
        ELSE /\ ~opRes.ok
             /\ SubSeq(opRes.err, 1, Len(TypeErrorPrefix)) = TypeErrorPrefix
             /\ opRes.h = opHeap

\* Reached: an update of two distinct sets that share a key with different
\* values, the left one having a key of its own.
C10_Witness ==
    /\ opRes.op = "update"
    /\ opRes.ok
    /\ opA = VAttrs(1)
    /\ opB = VAttrs(2)
    /\ \E k \in DOMAIN opHeap.attrs[1] \cap DOMAIN opHeap.attrs[2] :
            opHeap.attrs[1][k] # opHeap.attrs[2][k]
    /\ DOMAIN opHeap.attrs[1] \ DOMAIN opHeap.attrs[2] # {}

(***************************************************************************)
(* Properties of printing and reading back                                 *)
(***************************************************************************)
\* C11: for a value v built from null, booleans, integers (negative ones
\* too), strings, lists and attribute sets, the run of the interpreter on
\* the printed form of v ends with a value structurally equal to v; also
\* for a list holding a negative integer after another element.
C11_PrintParseRoundTrip ==
    /\ pc \notin {"hang", "panic"}
    /\ pc = "done" => (result.status = "ok" /\ StructEq(opHeap, opA, heap, result.val))

(***************************************************************************)
(* Properties of the parser's outcomes                                     *)
(***************************************************************************)
RECURSIVE ContainsNil(_)
\* The tree e is nil or has a nil sub-expression.
ContainsNil(e) ==
    CASE e = Nil -> TRUE
      [] e.kind = "List" -> \E i \in 1..Len(e.elems) : ContainsNil(e.elems[i])
      [] e.kind = "AttrSet" -> \E i \in 1..Len(e.bindings) : ContainsNil(e.bindings[i].value)
      [] e.kind = "Binary" -> ContainsNil(e.left) \/ ContainsNil(e.right)
      [] e.kind = "Unary" -> ContainsNil(e.expr)
      [] e.kind = "If" -> ContainsNil(e.cond) \/ ContainsNil(e.then) \/ ContainsNil(e.else)
      [] e.kind = "Let" ->
            \/ \E i \in 1..Len(e.bindings) : ContainsNil(e.bindings[i].value)
            \/ ContainsNil(e.body)
      [] e.kind = "With" -> ContainsNil(e.expr) \/ ContainsNil(e.body)
      [] e.kind = "Assert" -> ContainsNil(e.cond) \/ ContainsNil(e.body)
      [] e.kind = "Function" -> ContainsNil(e.body)
      [] e.kind = "Apply" -> ContainsNil(e.func) \/ ContainsNil(e.arg)
      [] e.kind = "Select" -> ContainsNil(e.expr)
      [] e.kind = "HasAttr" -> ContainsNil(e.expr)
      [] OTHER -> FALSE

\* C12: Parse ends, for every input, in exactly one of two outcomes: no
\* error and a tree without a nil sub-expression, or at least one error
\* record and no tree.
C12_ParseOutcome ==
    /\ pc \notin {"hang", "panic"}
    /\ AfterParse => \/ (errors = <<>> /\ ~ContainsNil(ast))
                     \/ (Len(errors) >= 1 /\ ast = Nil)

\* C13: when the lexer has emitted an ILLEGAL token at any position of the
\* input, Parse returns an error and no tree.
C13_IllegalIsParseError ==
    (AfterParse /\ \E i \in 1..Len(toks) : toks[i].Type = "ILLEGAL")
        => (Len(errors) >= 1 /\ ast = Nil)

\* C14: e ? a.b parses to HasAttr{e, [a, b]}, e.a or d parses to
\* Select{e, [a], default d}, and x or d with x not a selection records a
\* parse error.
C14_PostfixForms ==
    AfterParse =>
        /\ \A t \in PostfixTargets :
              input = t \o " ? a.b" =>
                  (errors = <<>> /\ ast = HasAttrExpr(Parse(LexAll(t)).tree, <<"a", "b">>))
        /\ \A t \in PostfixTargets :
              input = t \o ".a or d" =>
                  (errors = <<>>
                   /\ ast = SelectExpr(Parse(LexAll(t)).tree, <<"a">>, IdentExpr("d")))
        /\ input \in {"x or d", "1 or d"} => Len(errors) >= 1

(***************************************************************************)
(* Properties of the lexer                                                 *)
(***************************************************************************)
\* The token the step has just returned.
Returned == toks'[Len(toks')]

\* The lexer where its next token starts.
AtToken == skipIgnored(lx)

PathStarts(l) == l.ch = "/" /\ unicodeIsLetter(peekChar(l))

IsPathRun(tok, l) == tok.Type = "PATH" /\ tok.Literal = readPath(l).lit

\* C15: when the current character is / and the next one is a letter,
\* NextToken returns one Path token whose literal is the longest run of
\* path characters; /bin/sh is one Path token.
C15_PathToken ==
    [][(pc = "lex" /\ PathStarts(AtToken)) => IsPathRun(Returned, AtToken)]_vars

RECURSIVE IdentRunEnd(_, _)
\* The offset after the longest run of letters, digits, underscores and
\* hyphens that starts at offset i of the text.
IdentRunEnd(src, i) ==
    IF i < Len(src) /\ (isLetter(CharAt(src, i)) \/ isDigit(CharAt(src, i)) \/ CharAt(src, i) = "-")
    THEN IdentRunEnd(src, i + 1)
    ELSE i

IdentRun(l) == Slice(l.input, l.position, IdentRunEnd(l.input, l.position))

IsIdentRun(tok, l) == tok.Literal = IdentRun(l) /\ tok.Type = LookupIdent(IdentRun(l))

\* C16: a run that starts with a letter or an underscore and goes on with
\* letters, digits, underscores or hyphens is returned as one token, an
\* identifier or a keyword; foo-bar is one identifier.
C16_IdentifierMunch ==
    [][(pc = "lex" /\ isLetter(AtToken.ch)) => IsIdentRun(Returned, AtToken)]_vars

RECURSIVE NewlinesBefore(_, _)
\* The number of newline characters among the first k characters.
NewlinesBefore(src, k) ==
    IF k = 0 THEN 0
    ELSE NewlinesBefore(src, k - 1) + (IF SubSeq(src, k, k) = "\n" THEN 1 ELSE 0)

RECURSIVE LineStart(_, _)
\* The offset of the first character of the line that offset k is in.
LineStart(src, k) ==
    IF k = 0 \/ SubSeq(src, k, k) = "\n" THEN k ELSE LineStart(src, k - 1)

IsPositionOf(tok, src, k) ==
    /\ tok.Line = 1 + NewlinesBefore(src, k)
    /\ tok.Column = k - LineStart(src, k)

\* C17: every token NextToken returns carries line = 1 + the number of
\* newlines before its first character and column = the 0-based offset of
\* its first character in its line.
C17_TokenPositions ==
    [][pc = "lex" => IsPositionOf(Returned, input, AtToken.position)]_vars

\* C19: once NextToken has returned an EOF token, every later call returns
\* an EOF token with an empty literal.
C19_EofRepeats ==
    [][((\E i \in 1..Len(toks) : toks[i].Type = "EOF") /\ Len(toks') > Len(toks))
          => (Returned.Type = "EOF" /\ Returned.Literal = "")]_vars

KindLit(tok) == <<tok.Type, tok.Literal>>

IsZero(v) == (v.kind = "Int" /\ v.val = 0) \/ (v.kind = "Float" /\ v.num = 0)

\* The float q is the quotient of the numbers a and b.
IsQuotient(q, a, b) ==
    /\ q.kind = "Float"
    /\ q.den > 0
    /\ q.num * (ToFloat(a).den * ToFloat(b).num) = q.den * (ToFloat(a).num * ToFloat(b).den)

DrvChoices ==
    [name : {NilValue, VInt(1), VString("hello"), VString("a/"), VString("a/../b"), VString("")},
     builder : {NilValue, VBool(TRUE), VString("/bin/sh"), VString("b")},
     system : {NilValue, VString("aarch64-darwin"), VInt(1)},
     args : {NilValue, VList(<<VString("-c"), VString("x")>>), VList(<<VInt(1), VString("x")>>)},
     FOO : {NilValue, VString("1"), VString("2")},
     BAR : {NilValue, VString("")},
     pname : {NilValue, VString("p")},
     n : {NilValue, VInt(3)},
     out : {NilValue, VString("mine")}]

DrvMap(c) == [k \in {x \in DOMAIN c : c[x] # NilValue} |-> c[k]]

InitDrv ==
    /\ input = ""
    /\ lx = LexerNew("")
    /\ toks = <<>>
    /\ pc = "ops"
    /\ ast = Nil
    /\ errors = <<>>
    /\ heap = EmptyHeap
    /\ letEnv = 0
    /\ letIdx = 0
    /\ result = NoResult
    /\ \E c \in DrvChoices : opHeap = [envs |-> GlobalHeap.envs, attrs |-> <<DrvMap(c)>>]
    /\ opA \in {VAttrs(1), VNull}
    /\ opB = NilValue
    /\ opRes = NoOp
    /\ base = ""

\* derivation A
DoDerivation ==
    /\ pc = "ops"
    /\ opRes.op = "none"
    /\ opRes' = OpResult("derivation", BuiltinApply(VBuiltin("derivation"), <<opA>>, opHeap))
    /\ UNCHANGED <<input, lx, toks, pc, ast, errors, heap, letEnv, letIdx, result,
                   opA, opB, opHeap, base>>

NextDrv == DoDerivation

SpecDrv == InitDrv /\ [][NextDrv]_vars

(***************************************************************************)
(* Properties of conditions                                                *)
(***************************************************************************)
Yields(src, v) == (input = src /\ pc = "done") => (result.status = "ok" /\ result.val = v)

\* C21: a value that is no boolean is accepted where a boolean is expected,
\* and an integer counts as true: !5 is false, !!5 is true and
\* if (1) then 10 else 20 is 10, none of them a type error.
C21_IntegerCountsAsTrue ==
    /\ Yields("!5", VBool(FALSE))
    /\ Yields("!!5", VBool(TRUE))
    /\ Yields("if (1) then 10 else 20", VInt(10))

\* C22: each element of a list written with commas is parsed and evaluated
\* as a full expression, binary operators included: [1, 2 * 2, 3 + 3] parses
\* without error and is the list of the three elements 1, 4 and 6.
C22_ListElementsAreExpressions ==
    /\ (input = "[1, 2 * 2, 3 + 3]" /\ pc \in {"eval", "done"}) => errors = <<>>
    /\ Yields("[1, 2 * 2, 3 + 3]", VList(<<VInt(1), VInt(4), VInt(6)>>))

(***************************************************************************)
(* Properties of the relational operators                                  *)
(***************************************************************************)
\* The order and the equality of two numbers as numbers.
NumLess(a, b) == ToFloat(a).num * ToFloat(b).den < ToFloat(b).num * ToFloat(a).den
NumEqual(a, b) == ToFloat(a).num * ToFloat(b).den = ToFloat(b).num * ToFloat(a).den

Expected(op, a, b) ==
    CASE op = "<" -> NumLess(a, b)
      [] op = ">" -> NumLess(b, a)
      [] op = "<=" -> NumLess(a, b) \/ NumEqual(a, b)
      [] op = ">=" -> NumLess(b, a) \/ NumEqual(a, b)

\* C23: on two numbers of any Int/Float mix, a <= b is true exactly when
\* a < b or a and b are equal as numbers, a >= b exactly when a > b or they
\* are equal as numbers (Int 1 <= Float 1.0 is true), and < and > are the
\* order of the numbers.
C23_RelationalMixed ==
    (opRes.op \in RelationalOps /\ IsNumber(opA) /\ IsNumber(opB))
        => (opRes.ok /\ opRes.val = VBool(Expected(opRes.op, opA, opB)))

(***************************************************************************)
(* Properties of the derivation builtin                                    *)
(***************************************************************************)
\* The input set and the set the builtin returned.
DrvIn == opHeap.attrs[opA.ref]
DrvOut == opRes.h.attrs[opRes.val.ref]

HasString(m, k) == k \in DOMAIN m /\ m[k].kind = "String"

DerivationCalled == opRes.op = "derivation" /\ opA.kind = "Attrs"

\* The call had a name and a builder that are strings.
DerivationOfStrings ==
    DerivationCalled /\ HasString(DrvIn, "name") /\ HasString(DrvIn, "builder")

IsLowerHex(str) == \A i \in 1..Len(str) : SubSeq(str, i, i) \in
    {"0", "1", "2", "3", "4", "5", "6", "7", "8", "9", "a", "b", "c", "d", "e", "f"}

\* /nix/store/<32 lowercase hex chars>-<name>
IsStorePath(path, name) ==
    /\ Len(path) = 44 + Len(name)
    /\ SubSeq(path, 1, 11) = "/nix/store/"
    /\ IsLowerHex(SubSeq(path, 12, 43))
    /\ SubSeq(path, 44, 44) = "-"
    /\ SubSeq(path, 45, Len(path)) = name

\* The set o is the derivation of the name and the system with the store
\* path storePath.
IsDerivationOf(o, h, storePath, name, system) ==
    /\ {"name", "builder", "system", "args", "drvPath", "outputs", "out"} \subseteq DOMAIN o
    /\ o["system"] = VString(system)
    /\ IsStorePath(storePath, name)
    /\ o["drvPath"] = VString(storePath \o ".drv")
    /\ o["out"] = VString(storePath \o "/out")
    /\ o["outputs"].kind = "Attrs"
    /\ "out" \in DOMAIN h.attrs[o["outputs"].ref]
    /\ h.attrs[o["outputs"].ref]["out"] = VString(storePath \o "/out")

\* C24: for an input set whose name and builder are strings the derivation
\* builtin returns a set with the keys name, builder, system, args, drvPath,
\* outputs and out, where system is the input's or x86_64-linux, drvPath is
\* the store path /nix/store/<32 hex>-<name> followed by .drv, and out and
\* outputs.out are the store path followed by /out, for every name; without
\* a string name or builder the call fails as an invalid derivation.
C24_DerivationAttrs ==
    /\ (DerivationOfStrings /\ ("system" \notin DOMAIN DrvIn \/ HasString(DrvIn, "system")))
          => /\ opRes.ok
             /\ opRes.val.kind = "Attrs"
             /\ HasString(DrvOut, "drvPath")
             /\ IsDerivationOf(DrvOut, opRes.h,
                               SubSeq(DrvOut["drvPath"].str, 1, Len(DrvOut["drvPath"].str) - 4),
                               DrvIn["name"].str,
                               IF "system" \in DOMAIN DrvIn THEN DrvIn["system"].str
                               ELSE "x86_64-linux")
    /\ (DerivationCalled /\ ~DerivationOfStrings)
          => (~opRes.ok /\ SubSeq(opRes.err, 1, 18) = "invalid derivation")

\* C25: the set the derivation builtin returns contains the inputs: every
\* attribute of the input set, the extra string attributes included, is in
\* the output with its input value.
C25_DerivationKeepsInputs ==
    DerivationOfStrings
        => /\ opRes.ok
           /\ \A k \in DOMAIN DrvIn :
                  k \in DOMAIN DrvOut /\ ValueEquals(opRes.h, DrvOut[k], DrvIn[k])

\* The environment keys of an input set: string-valued and not reserved.
EnvKeys(m) == {k \in DOMAIN m : m[k].kind = "String" /\ k \notin ReservedKeys}

\* The canonical string as the claim describes it.
CanonicalOf(m) ==
    JoinStrings(<<"name=" \o m["name"].str, "builder=" \o m["builder"].str,
                  "args=" \o (IF "args" \in DOMAIN m /\ m["args"].kind = "List"
                              THEN JoinStrings(ArgStrings(m["args"].elems), ",", 1) ELSE ""),
                  "system=" \o (IF HasString(m, "system") THEN m["system"].str
                                ELSE "x86_64-linux")>>
                \o [i \in 1..Cardinality(EnvKeys(m)) |->
                        "env." \o SortStrings(EnvKeys(m))[i] \o "="
                        \o m[SortStrings(EnvKeys(m))[i]].str], "\n", 1)

\* C28: the string hashed for a derivation is the lines name=, builder=,
\* args= and system=, then one line env.<k>=<v> for each string-valued input
\* attribute k that is not reserved, in ascending key order, with v the
\* attribute's own input value, and no other env line.
C28_CanonicalString ==
    (DerivationOfStrings /\ opRes.ok)
        => HashContent(FromAttrs(opHeap, opA.ref).drv) = CanonicalOf(DrvIn)

(***************************************************************************)
(* Properties of scopes                                                    *)
(***************************************************************************)
Prints(src, out) == (input = src /\ pc = "done") => (result.status = "ok" /\ result.out = out)

\* C26: in a recursive set the second pass evaluates each non-simple
\* binding with the recursive frame in scope and inserts its result, so a
\* non-simple binding can use every simple binding whatever the order and
\* every non-simple binding written before it: the recursive set of x = 1,
\* y = x + 1, z = y + 1 is x = 1, y = 2, z = 3.
C26_RecursiveSetChain ==
    /\ Prints("{ rec y = x + 1; x = 1; }", "{ x = 1; y = 2; }")
    /\ Prints("{ rec x = 1; y = x + 1; z = y + 1; }", "{ x = 1; y = 2; z = 3; }")

FailsToEvaluate(src) == (input = src /\ pc = "done") => result.status = "eval error"

\* C27: let bindings are strict and not recursive: no name inside the
\* expression of a binding, the body of a function it defines and that is
\* called later included, resolves to that binding or to a later binding of
\* the same let; with no enclosing binding of the name the evaluation fails
\* with an undefined variable.
C27_LetNotRecursive ==
    /\ FailsToEvaluate("let x = y; y = 2; in x")
    /\ FailsToEvaluate("let x = a: y; y = 2; in x 1")
    /\ FailsToEvaluate("let f = a: f; in isFunction (f 1)")

(***************************************************************************)
(* Termination of the parser                                               *)
(***************************************************************************)
\* C29: Parse terminates on every finite input: each turn of each loop of
\* the parser consumes a token or leaves the loop, also when a binding fails
\* to parse (one that starts with an integer, one without =), so the errors
\* stay finitely many.  A turn of the binding loop that fails without
\* consuming a token repeats for ever; the model calls that state hang.
C29_ParseTerminates == pc # "hang"

(***************************************************************************)
(* Memory safety of the lexer                                              *)
(***************************************************************************)
IsSubstring(lit, src) ==
    \E k \in 0..(Len(src) - Len(lit)) : SubSeq(src, k + 1, k + Len(lit)) = lit

\* C30: NextToken never slices beyond the input: for every input, an
\* unterminated string and a string whose last character is a backslash
\* included, the position used as a slice bound is at most len(input) and
\* the literal returned is a contiguous part of the input.  A slice bound
\* beyond the input is a run-time panic; the model calls that state panic.
C30_LexerStaysInInput ==
    /\ pc # "panic"
    /\ \A i \in 1..Len(toks) : IsSubstring(toks[i].Literal, input)

====
